---- MODULE Spec2Model ----
(***************************************************************************)
(* A model of the fga-sync service: the relationship synchronizer          *)
(* (FgaService.SyncObjectTuples) and the cached batch-check engine         *)
(* (FgaService.CheckRelationships) working against the OpenFGA store and   *)
(* the NATS key-value cache bucket.                                        *)
(*                                                                         *)
(* Strings are TLA+ strings; keys are built with \o exactly as the Go code *)
(* concatenates them.  Variables and record fields whose name starts with  *)
(* "g" are history (ghost) data: the code does not hold them, they record  *)
(* what a call did so that the properties can speak about it.              *)
(***************************************************************************)
EXTENDS Integers, Sequences, FiniteSets, TLC

VARIABLES
  store,          \* the tuples held by the OpenFGA store
  storeVer,       \* ghost: number of successful store Writes so far
  retVer,         \* ghost: highest storeVer written by a sync that has returned nil
  cache,          \* the NATS KV bucket: key -> entry
  now,            \* the cache server's clock (entry creation times come from it)
  sync,           \* the locals of each SyncObjectTuples call in progress
  seeds,          \* the seed goroutines started and not yet run
  chk,            \* the locals of each CheckRelationships call in progress
  checkCalls,     \* number of CheckRelationships calls started
  cacheHits,      \* expvar cache_hits
  cacheStaleHits, \* expvar cache_stale_hits
  cacheMisses,    \* expvar cache_misses
  useCache,       \* the USE_CACHE toggle read at start-up
  codec,          \* the argument and the results of a parsing or encoding function
  handler,        \* the message a subscription handler works on, and its locals
  reg             \* the locals of each registrant operation in progress

vars == <<store, storeVer, retVer, cache, now, sync, seeds, chk, checkCalls,
          cacheHits, cacheStaleHits, cacheMisses, useCache, codec, handler, reg>>

----------------------------------------------------------------------------
(* Bounds of the model.                                                    *)

MaxDesired == 2      \* longest desired list handed to SyncObjectTuples
MaxTime == 2         \* the cache clock runs from 1 to MaxTime
SyncMaxTime == 2     \* the same, in the runs with a synchronizer
MaxWrites == 2       \* successful store Writes in one behaviour
MaxChecks == 2       \* longest check list handed to CheckRelationships
MaxCheckCalls == 2   \* CheckRelationships calls in one behaviour
PageSize == 1        \* tuples the store returns per Read page

----------------------------------------------------------------------------
(* The universe of strings.                                                *)

Object == "project:p1"        \* the object being synced
OtherObject == "project:p2"   \* some other object
UserSeq == <<"user:a", "user:*", "team:t", "user:x", "user:y", "project:p1">>
RelSeq == <<"viewer", "writer", "participant", "host", "organizer", "project">>
Users == {UserSeq[i] : i \in 1..Len(UserSeq)}
Relations == {RelSeq[i] : i \in 1..Len(RelSeq)}
Uids == {"a", "t", "*", "x", "y"}

\* strings.HasPrefix over the strings of the universe (<type>:<uid>).
HasPrefix(s, prefix) == \E rest \in Uids : s = prefix \o rest

SyncProcs == {"s1", "s2"}
CheckProcs == {"c1", "c2"}
RegProcs == {"r1", "r2"}

\* a registrant operation that has not been called; gstore0, gwrites, gdeletes,
\* gcalls and gprev are ghost fields: the store at the call, the writes and the
\* deletes of the Write, the number of Write calls, and the operations that
\* had returned when this one was called
IdleReg ==
  [pc |-> "idle", op |-> "", userPrincipal |-> "", meetingObject |-> "", isHost |-> FALSE,
   token |-> 0, existingTuples |-> <<>>, err |-> "",
   gstore0 |-> {}, gwrites |-> <<>>, gdeletes |-> <<>>, gcalls |-> 0, gprev |-> {}]

\* openfga ClientTupleKey{User, Relation, Object}
TupleKey(user, relation, object) ==
  [user |-> user, relation |-> relation, object |-> object]

\* the tuples the store can hold for Object: a user, every user, and a
\* subject that is no user
StoreTuples ==
  {TupleKey("user:a", "writer", Object), TupleKey("user:*", "viewer", Object),
   TupleKey("team:t", "viewer", Object)}

\* the tuples a caller can put in a desired list: the tuples of Object, named
\* in full or with the object left empty, and a tuple of another object
DesiredTuples ==
  StoreTuples \cup {TupleKey("user:a", "writer", ""), TupleKey("user:a", "writer", OtherObject)}

\* sequences over S of length at most n
SeqUpTo(S, n) == UNION {[1..k -> S] : k \in 0..n}

\* all the orders in which a Go map with the values S can be ranged over
Orders(S) ==
  {f \in [1..Cardinality(S) -> S] : \A i, j \in 1..Cardinality(S) : i # j => f[i] # f[j]}

SeqToSet(s) == {s[i] : i \in 1..Len(s)}

----------------------------------------------------------------------------
(* Go maps.                                                                *)

EmptyMap == [k \in {} |-> 0]
MapPut(m, k, v) == [x \in (DOMAIN m) \cup {k} |-> IF x = k THEN v ELSE m[x]]
MapDelete(m, k) == [x \in (DOMAIN m) \ {k} |-> m[x]]
MapValues(m) == {m[k] : k \in DOMAIN m}

Max(a, b) == IF a >= b THEN a ELSE b

----------------------------------------------------------------------------
(* The tuple codec.                                                        *)

\* relation.Relation + "@" + relation.User: the key of the desired-state map
RelationMapKey(t) == t.relation \o "@" \o t.user

\* req.Object + "#" + req.Relation + "@" + req.User
RelationKey(t) == t.object \o "#" \o t.relation \o "@" \o t.user

\* cacheKeyEncoder.EncodeToString: base32 without padding.  The bytes of the
\* encoding are not computed here; the encoded text is kept apart from the
\* plain text by a marker, so that a cache key never equals a relation key.
EncodeToString(s) == "b32[" \o s \o "]"

CacheKey(t) == "rel." \o EncodeToString(RelationKey(t))

InvKey == "inv"

----------------------------------------------------------------------------
(* The OpenFGA store behind IFgaClient.                                    *)

IndexOf(seq, x) == CHOOSE i \in 1..Len(seq) : seq[i] = x

\* the store's natural order of the tuples of one object
Rank(t) == (IndexOf(UserSeq, t.user) - 1) * Len(RelSeq) + IndexOf(RelSeq, t.relation)

\* the first n elements of the set S of tuples in the store's order
RECURSIVE FirstByRank(_, _)
FirstByRank(S, n) ==
  IF n = 0 \/ S = {} THEN <<>>
  ELSE LET t == CHOOSE x \in S : \A y \in S : Rank(x) <= Rank(y)
       IN <<t>> \o FirstByRank(S \ {t}, n - 1)

\* client.Read(object, continuation token): one page and the next token
\* (0 is the empty token)
StoreRead(object, token) ==
  LET rest == {t \in store : t.object = object /\ Rank(t) > token}
      page == FirstByRank(rest, PageSize)
  IN [tuples |-> page,
      token |-> IF Cardinality(rest) > PageSize THEN Rank(page[Len(page)]) ELSE 0]

\* client.Write({writes, deletes}) when it succeeds: atomic
StoreWrite(writes, deletes) == (store \ SeqToSet(deletes)) \cup SeqToSet(writes)

----------------------------------------------------------------------------
(* The cache bucket (INatsKeyValue).                                       *)

\* the entry a Put made now creates; gsrc and gver are ghost fields: who wrote
\* the entry and the store version its value was obtained at
Entry(value, gsrc, gver) ==
  [value |-> value, created |-> now, gsrc |-> gsrc, gver |-> gver]

\* cacheBucket.Put / PutString
CachePut(c, key, value, gsrc, gver) == MapPut(c, key, Entry(value, gsrc, gver))

\* ghost: the inv entry of the cache, NoEntry when the key is absent
NoEntry == [value |-> "", created |-> 0, gsrc |-> "", gver |-> 0]

InvEntry == IF InvKey \in DOMAIN cache THEN cache[InvKey] ELSE NoEntry

\* the invalidation instant taken to be the present when inv is absent
InvCreated_NowWhenAbsent == IF InvKey \in DOMAIN cache THEN cache[InvKey].created ELSE now

\* entry.Created() of the inv key, the zero time when the key is not found
InvCreated == IF InvKey \in DOMAIN cache THEN cache[InvKey].created ELSE 0

----------------------------------------------------------------------------
(* SyncObjectTuples.                                                       *)

\* getRelationsMap without the case that drops the tuples of another object
getRelationsMap_KeepsOther(object, relations) ==
  LET step[i \in 0..Len(relations)] ==
        IF i = 0 THEN EmptyMap
        ELSE MapPut(step[i - 1], RelationMapKey(relations[i]),
                    [relations[i] EXCEPT !.object = object])
  IN step[Len(relations)]

\* getRelationsMap that keeps the entry a key already has
getRelationsMap_FirstWins(object, relations) ==
  LET step[i \in 0..Len(relations)] ==
        IF i = 0 THEN EmptyMap
        ELSE LET relation == relations[i]
                 key == RelationMapKey(relation)
             IN IF relation.object \notin {"", object} \/ key \in DOMAIN step[i - 1]
                  THEN step[i - 1]
                  ELSE MapPut(step[i - 1], key, [relation EXCEPT !.object = object])
  IN step[Len(relations)]

getRelationsMap(object, relations) ==
  LET step[i \in 0..Len(relations)] ==
        IF i = 0 THEN EmptyMap
        ELSE LET relation == relations[i]
                 key == RelationMapKey(relation)
             IN IF relation.object = ""
                  THEN MapPut(step[i - 1], key, [relation EXCEPT !.object = object])
                ELSE IF relation.object # object
                  THEN step[i - 1]
                ELSE MapPut(step[i - 1], key, relation)
  IN step[Len(relations)]

\* DiffTuples without the delete(relationsMap, key) of a match
DiffTuples_KeepsMatch(object, relationsMap, tuples) ==
  LET unmatched == SelectSeq(tuples, LAMBDA t : RelationMapKey(t) \notin DOMAIN relationsMap)
  IN [relationsMap |-> relationsMap,
      deletes |-> [i \in 1..Len(unmatched) |->
                     TupleKey(unmatched[i].user, unmatched[i].relation, object)]]

\* DiffTuples that never appends to the deletes
DiffTuples_NoDeletes(object, relationsMap, tuples) ==
  LET matched == {RelationMapKey(tuples[i]) : i \in 1..Len(tuples)}
  IN [relationsMap |-> [k \in (DOMAIN relationsMap) \ matched |-> relationsMap[k]],
      deletes |-> <<>>]

\* the loop over the tuples read: a match is removed from the map, any other
\* tuple read is appended to the deletes
DiffTuples(object, relationsMap, tuples) ==
  LET step[i \in 0..Len(tuples)] ==
        IF i = 0 THEN [relationsMap |-> relationsMap, deletes |-> <<>>]
        ELSE LET prev == step[i - 1]
                 tuple == tuples[i]
                 key == RelationMapKey(tuple)
             IN IF key \in DOMAIN prev.relationsMap
                  THEN [prev EXCEPT !.relationsMap = MapDelete(prev.relationsMap, key)]
                  ELSE [prev EXCEPT !.deletes =
                          Append(prev.deletes, TupleKey(tuple.user, tuple.relation, object))]
  IN step[Len(tuples)]

\* the test of the notification branch, which leaves out user:*
IsSeeded_NotWildcard(relation) ==
  HasPrefix(relation.user, "user:") /\ relation.user # "user:*"

\* the writes whose cache key is seeded
IsSeeded(relation) == HasPrefix(relation.user, "user:")

\* the goroutines the loop over the remaining map starts
SeedsOf(p, writes) ==
  {[key |-> CacheKey(writes[i]), owner |-> p] : i \in {j \in 1..Len(writes) : IsSeeded(writes[j])}}

IdleSync ==
  [pc |-> "idle", object |-> "", relations |-> <<>>, relationsMap |-> EmptyMap,
   token |-> 0, tuples |-> <<>>, writes |-> <<>>, deletes |-> <<>>, err |-> "",
   ctx |-> "live",
   gtrace |-> <<>>, gothers |-> 0, ginvBefore |-> 0, gstartNow |-> 0, gver |-> 0,
   gseeded |-> {}]

Active(q) == sync[q].pc # "idle"

\* the call starts: the desired list is turned into the map
SyncStart(p, object, relations) ==
  /\ sync[p].pc = "idle"
  /\ LET n == Cardinality({q \in SyncProcs \ {p} : Active(q)})
     IN sync' = [q \in SyncProcs |->
                  IF q = p
                    THEN [IdleSync EXCEPT !.pc = "read", !.object = object,
                                          !.relations = relations,
                                          !.relationsMap = getRelationsMap(object, relations),
                                          !.gothers = n, !.ginvBefore = InvCreated,
                                          !.gstartNow = now]
                  ELSE IF Active(q)
                    THEN [sync[q] EXCEPT !.gothers = IF @ < 2 THEN @ + 1 ELSE @]
                  ELSE sync[q]]
  /\ UNCHANGED <<reg, codec, handler, useCache, store, storeVer, retVer, cache, now, seeds, chk, checkCalls,
                 cacheHits, cacheStaleHits, cacheMisses>>

\* a ReadObjectTuples that returns after its first page
SyncReadPage_FirstPageOnly(p) ==
  /\ sync[p].pc = "read"
  /\ \/ LET resp == StoreRead(sync[p].object, sync[p].token)
        IN sync' = [sync EXCEPT ![p].tuples = @ \o resp.tuples,
                                ![p].token = 0,
                                ![p].pc = "diff",
                                ![p].gtrace = Append(@, "read")]
     \/ sync' = [sync EXCEPT ![p].pc = "done", ![p].err = "read", ![p].tuples = <<>>,
                             ![p].gtrace = Append(@, "readerr")]
  /\ UNCHANGED <<reg, codec, handler, useCache, store, storeVer, retVer, cache, now, seeds, chk, checkCalls,
                 cacheHits, cacheStaleHits, cacheMisses>>

\* ReadObjectTuples: one client.Read; the loop ends on the empty token
SyncReadPage(p) ==
  /\ sync[p].pc = "read"
  /\ \/ LET resp == StoreRead(sync[p].object, sync[p].token)
        IN sync' = [sync EXCEPT ![p].tuples = @ \o resp.tuples,
                                ![p].token = resp.token,
                                ![p].pc = IF resp.token = 0 THEN "diff" ELSE "read",
                                ![p].gtrace = Append(@, "read")]
     \/ sync' = [sync EXCEPT ![p].pc = "done", ![p].err = "read", ![p].tuples = <<>>,
                             ![p].gtrace = Append(@, "readerr")]
  /\ UNCHANGED <<reg, codec, handler, useCache, store, storeVer, retVer, cache, now, seeds, chk, checkCalls,
                 cacheHits, cacheStaleHits, cacheMisses>>

\* the two loops that build deletes and writes and start the seed goroutines,
\* then the early return when there is nothing to write or delete
SyncDiff(p) ==
  /\ sync[p].pc = "diff"
  /\ LET d == DiffTuples(sync[p].object, sync[p].relationsMap, sync[p].tuples)
     IN \E writes \in Orders(MapValues(d.relationsMap)) :
          /\ sync' = [sync EXCEPT ![p].relationsMap = d.relationsMap,
                                  ![p].deletes = d.deletes,
                                  ![p].writes = writes,
                                  ![p].gseeded = {s.key : s \in SeedsOf(p, writes)},
                                  ![p].pc = IF Len(writes) = 0 /\ Len(d.deletes) = 0
                                              THEN "done" ELSE "write"]
          /\ seeds' = seeds \cup SeedsOf(p, writes)
  /\ UNCHANGED <<reg, codec, handler, useCache, store, storeVer, retVer, cache, now, chk, checkCalls,
                 cacheHits, cacheStaleHits, cacheMisses>>

\* client.Write: it fails and the call returns the error, or it is applied
SyncWrite(p) ==
  /\ sync[p].pc = "write"
  /\ \/ /\ storeVer < MaxWrites
        /\ store' = StoreWrite(sync[p].writes, sync[p].deletes)
        /\ storeVer' = storeVer + 1
        /\ sync' = [sync EXCEPT ![p].pc = "inv", ![p].gver = storeVer + 1,
                                ![p].gtrace = Append(@, "write")]
     \/ /\ sync' = [sync EXCEPT ![p].pc = "done", ![p].err = "write",
                                ![p].gtrace = Append(@, "writeerr")]
        /\ UNCHANGED <<store, storeVer>>
  /\ UNCHANGED <<reg, codec, handler, useCache, retVer, cache, now, seeds, chk, checkCalls,
                 cacheHits, cacheStaleHits, cacheMisses>>

\* SyncPutInv without the Put
SyncPutInv_NoPut(p) ==
  /\ sync[p].pc = "inv"
  /\ sync' = [sync EXCEPT ![p].pc = "done", ![p].gtrace = Append(@, "inv")]
  /\ retVer' = Max(retVer, sync[p].gver)
  /\ UNCHANGED <<reg, codec, handler, useCache, store, storeVer, cache, now, seeds, chk, checkCalls,
                 cacheHits, cacheStaleHits, cacheMisses>>

\* SyncPutInv returning the error of the Put
SyncPutInv_FailsCall(p) ==
  /\ sync[p].pc = "inv"
  /\ \/ /\ cache' = CachePut(cache, InvKey, "1", "inv", sync[p].gver)
        /\ sync' = [sync EXCEPT ![p].pc = "done", ![p].gtrace = Append(@, "inv")]
     \/ /\ sync' = [sync EXCEPT ![p].pc = "done", ![p].err = "inv",
                                ![p].gtrace = Append(@, "inverr")]
        /\ UNCHANGED cache
  /\ retVer' = Max(retVer, sync[p].gver)
  /\ UNCHANGED <<reg, codec, handler, useCache, store, storeVer, now, seeds, chk, checkCalls,
                 cacheHits, cacheStaleHits, cacheMisses>>

\* cacheBucket.Put("inv", "1"): a failure is logged only; the call returns nil
SyncPutInv(p) ==
  /\ sync[p].pc = "inv"
  /\ \/ /\ cache' = CachePut(cache, InvKey, "1", "inv", sync[p].gver)
        /\ sync' = [sync EXCEPT ![p].pc = "done", ![p].gtrace = Append(@, "inv")]
     \/ /\ sync' = [sync EXCEPT ![p].pc = "done", ![p].gtrace = Append(@, "inverr")]
        /\ UNCHANGED cache
  /\ retVer' = Max(retVer, sync[p].gver)
  /\ UNCHANGED <<reg, codec, handler, useCache, store, storeVer, now, seeds, chk, checkCalls,
                 cacheHits, cacheStaleHits, cacheMisses>>

\* the ctx of the call that started the goroutine s, which the goroutine hands
\* to context.WithTimeout(ctx, 5*time.Second): done as soon as ctx is done
TimeoutCtx(s) ==
  IF s.owner \in SyncProcs THEN sync[s.owner].ctx ELSE "live"

\* a seed goroutine runs: PutString(timeoutCtx, cacheKey, "true"), its result
\* ignored; on a context already cancelled the Put returns the context's error
\* and nothing is sent to the bucket
SeedRun(s) ==
  /\ s \in seeds
  /\ seeds' = seeds \ {s}
  /\ \E ok \in (IF TimeoutCtx(s) = "cancelled" THEN {FALSE} ELSE BOOLEAN) :
       /\ cache' = IF ok THEN CachePut(cache, s.key, "true", "seed", storeVer) ELSE cache
       /\ sync' = IF s.owner \in SyncProcs
                    THEN [sync EXCEPT ![s.owner].gtrace =
                            Append(@, IF ok THEN "seed"
                                      ELSE IF TimeoutCtx(s) = "cancelled" THEN "seedcancelled"
                                      ELSE "seederr")]
                    ELSE sync
  /\ UNCHANGED <<reg, codec, handler, useCache, store, storeVer, retVer, now, chk, checkCalls,
                 cacheHits, cacheStaleHits, cacheMisses>>

\* the caller of SyncObjectTuples cancels the ctx it passed, after the call
\* has returned
CancelCaller(p) ==
  /\ sync[p].pc = "done"
  /\ sync[p].ctx = "live"
  /\ sync' = [sync EXCEPT ![p].ctx = "cancelled"]
  /\ UNCHANGED <<reg, codec, handler, useCache, store, storeVer, retVer, cache, now, seeds, chk, checkCalls,
                 cacheHits, cacheStaleHits, cacheMisses>>

\* the cache server's clock advances
Tick(limit) ==
  /\ now < limit
  /\ now' = now + 1
  /\ UNCHANGED <<reg, codec, handler, useCache, store, storeVer, retVer, cache, sync, seeds, chk, checkCalls,
                 cacheHits, cacheStaleHits, cacheMisses>>

----------------------------------------------------------------------------
(* CheckRelationships.                                                     *)

\* the tuples a check request can name
CheckTuples == StoreTuples

\* correlation ids counted from zero
CorrelationID_FromZero(idx) == ToString(idx - 1)

\* fmt.Sprintf("%d", idx+1)
CorrelationID(idx) == ToString(idx)

\* a correlation id the caller never sent
UnknownID == "0"

\* one line of the response and its newline, as two runs of bytes
Line(relationKey, value) == <<relationKey \o "\t" \o value, "\n">>

\* a formatter that says "true" whatever the flag
FormatBool_AlwaysTrue(b) == "true"

\* strconv.FormatBool
FormatBool(b) == IF b THEN "true" ELSE "false"

\* message[:len(message)-1]: the message without its last byte
TrimLast(message) == SubSeq(message, 1, Len(message) - 1)

\* the staleness test with "not before" in place of "after"
IsStale_OrEqual(lastInvalidation, created) == lastInvalidation >= created

\* staleness decided by the presence of an invalidation alone
IsStale_AnyInv(lastInvalidation, created) == lastInvalidation > 0

\* lastInvalidation.After(entry.Created())
IsStale(lastInvalidation, created) == lastInvalidation > created

IdleCheck ==
  [pc |-> "idle", tuples |-> <<>>, lastInvalidation |-> 0, i |-> 1,
   tuplesToCheck |-> <<>>, message |-> <<>>, ids |-> EmptyMap, result |-> EmptyMap,
   pending |-> {}, err |-> "", output |-> <<>>,
   gminVer |-> 0, gbatchVer |-> 0, glookups |-> <<>>, gappended |-> <<>>,
   gbatches |-> 0, gputs |-> <<>>, ghits0 |-> 0, gstale0 |-> 0, gmiss0 |-> 0,
   ginv |-> "", gcache0 |-> EmptyMap]

\* the call starts; an empty list returns nil, nil at once
CheckStart(c, tuples) ==
  /\ chk[c].pc = "idle"
  /\ checkCalls < MaxCheckCalls
  /\ checkCalls' = checkCalls + 1
  /\ chk' = [chk EXCEPT ![c] =
               [IdleCheck EXCEPT !.pc = IF Len(tuples) = 0 THEN "done" ELSE "getinv",
                                 !.tuples = tuples, !.gminVer = retVer,
                                 !.ghits0 = cacheHits, !.gstale0 = cacheStaleHits,
                                 !.gmiss0 = cacheMisses, !.gcache0 = cache]]
  /\ UNCHANGED <<reg, codec, handler, useCache, store, storeVer, retVer, cache, now, sync, seeds,
                 cacheHits, cacheStaleHits, cacheMisses>>

\* CheckGetInv going on with the zero time when Get("inv") fails
CheckGetInv_IgnoresError(c) ==
  /\ chk[c].pc = "getinv"
  /\ \/ chk' = [chk EXCEPT ![c].lastInvalidation = InvCreated, ![c].pc = "lookup",
                           ![c].ginv = IF InvKey \in DOMAIN cache THEN "found"
                                                                 ELSE "not found"]
     \/ chk' = [chk EXCEPT ![c].pc = "lookup", ![c].ginv = "error"]
  /\ UNCHANGED <<reg, codec, handler, useCache, store, storeVer, retVer, cache, now, sync, seeds, checkCalls,
                 cacheHits, cacheStaleHits, cacheMisses>>

\* getLastCacheInvalidation: Get("inv")
CheckGetInv(c) ==
  /\ chk[c].pc = "getinv"
  /\ \/ chk' = [chk EXCEPT ![c].lastInvalidation = InvCreated, ![c].pc = "lookup",
                           ![c].ginv = IF InvKey \in DOMAIN cache THEN "found"
                                                                 ELSE "not found"]
     \/ chk' = [chk EXCEPT ![c].pc = "done", ![c].err = "inv", ![c].ginv = "error"]
  /\ UNCHANGED <<reg, codec, handler, useCache, store, storeVer, retVer, cache, now, sync, seeds, checkCalls,
                 cacheHits, cacheStaleHits, cacheMisses>>

\* the lookup loop skipping the tuple whose lookup failed
Remaining_SkipCurrent(tupleItems, i) == SubSeq(tupleItems, i + 1, Len(tupleItems))

\* tupleItems[i:], i counted from 1
Remaining(tupleItems, i) == SubSeq(tupleItems, i, Len(tupleItems))

\* what the lookup of one tuple records
Lookup(i, outcome, created, gsrc, gver) ==
  [i |-> i, outcome |-> outcome, created |-> created, gsrc |-> gsrc, gver |-> gver]

\* one iteration of the loop over the requested tuples: Get(cacheKey)
CheckLookup(c) ==
  /\ chk[c].pc = "lookup"
  /\ chk[c].i <= Len(chk[c].tuples)
  /\ LET i == chk[c].i
         tuple == chk[c].tuples[i]
         relationKey == RelationKey(tuple)
         cacheKey == CacheKey(tuple)
     IN \/ \* a cache error: every remaining tuple goes to the check list
           /\ chk' = [chk EXCEPT ![c].tuplesToCheck =
                                   @ \o Remaining(chk[c].tuples, i),
                                 ![c].i = Len(chk[c].tuples) + 1,
                                 ![c].glookups = Append(@, Lookup(i, "error", 0, "", 0))]
           /\ UNCHANGED <<cacheHits, cacheStaleHits, cacheMisses>>
        \/ \* jetstream.ErrKeyNotFound
           /\ cacheKey \notin DOMAIN cache
           /\ cacheMisses' = cacheMisses + 1
           /\ chk' = [chk EXCEPT ![c].tuplesToCheck = Append(@, tuple),
                                 ![c].i = i + 1,
                                 ![c].glookups = Append(@, Lookup(i, "miss", 0, "", 0))]
           /\ UNCHANGED <<cacheHits, cacheStaleHits>>
        \/ \* found, older than the invalidation
           /\ cacheKey \in DOMAIN cache
           /\ IsStale(chk[c].lastInvalidation, cache[cacheKey].created)
           /\ cacheStaleHits' = cacheStaleHits + 1
           /\ chk' = [chk EXCEPT ![c].tuplesToCheck = Append(@, tuple),
                                 ![c].i = i + 1,
                                 ![c].glookups =
                                   Append(@, Lookup(i, "stale", cache[cacheKey].created,
                                                    cache[cacheKey].gsrc, cache[cacheKey].gver))]
           /\ UNCHANGED <<cacheHits, cacheMisses>>
        \/ \* found and served
           /\ cacheKey \in DOMAIN cache
           /\ ~IsStale(chk[c].lastInvalidation, cache[cacheKey].created)
           /\ cacheHits' = cacheHits + 1
           /\ chk' = [chk EXCEPT ![c].message = @ \o Line(relationKey, cache[cacheKey].value),
                                 ![c].i = i + 1,
                                 ![c].glookups =
                                   Append(@, Lookup(i, "hit", cache[cacheKey].created,
                                                    cache[cacheKey].gsrc, cache[cacheKey].gver))]
           /\ UNCHANGED <<cacheStaleHits, cacheMisses>>
  /\ UNCHANGED <<reg, codec, handler, useCache, store, storeVer, retVer, cache, now, sync, seeds, checkCalls>>

\* mapCorrelationIDToTuple: "1".."N" in the order of the check list
CorrelationMap(tuplesToCheck) ==
  [id \in {CorrelationID(idx) : idx \in 1..Len(tuplesToCheck)} |->
     tuplesToCheck[CHOOSE idx \in 1..Len(tuplesToCheck) : CorrelationID(idx) = id]]

\* CheckDispatch without the return of the cached message
CheckDispatch_AlwaysBatch(c) ==
  /\ chk[c].pc = "lookup"
  /\ chk[c].i > Len(chk[c].tuples)
  /\ chk' = [chk EXCEPT ![c].pc = "batch",
                        ![c].ids = CorrelationMap(chk[c].tuplesToCheck)]
  /\ UNCHANGED <<reg, codec, handler, useCache, store, storeVer, retVer, cache, now, sync, seeds, checkCalls,
                 cacheHits, cacheStaleHits, cacheMisses>>

\* after the loop: the cached message is returned when nothing is left to
\* check, else the correlation ids are assigned
CheckDispatch(c) ==
  /\ chk[c].pc = "lookup"
  /\ chk[c].i > Len(chk[c].tuples)
  /\ chk' = IF Len(chk[c].tuplesToCheck) = 0
              THEN IF Len(chk[c].message) < 1
                     THEN [chk EXCEPT ![c].pc = "done", ![c].err = "empty"]
                     ELSE [chk EXCEPT ![c].pc = "done",
                                      ![c].output = TrimLast(chk[c].message)]
              ELSE [chk EXCEPT ![c].pc = "batch",
                               ![c].ids = CorrelationMap(chk[c].tuplesToCheck)]
  /\ UNCHANGED <<reg, codec, handler, useCache, store, storeVer, retVer, cache, now, sync, seeds, checkCalls,
                 cacheHits, cacheStaleHits, cacheMisses>>

\* the result maps the gateway can return for the checks sent: any set of the
\* ids sent, with or without an id that was not sent; allowed is read from
\* the store
BatchResults(ids) ==
  {[id \in D |-> IF id \in DOMAIN ids THEN ids[id] \in store ELSE FALSE] :
     D \in SUBSET ((DOMAIN ids) \cup {UnknownID})}

\* CheckBatch returning the lines of the cache hits when the gateway fails
CheckBatch_KeepsHits(c) ==
  /\ chk[c].pc = "batch"
  /\ \/ chk' = [chk EXCEPT ![c].pc = "done", ![c].err = "batch",
                           ![c].output = chk[c].message,
                           ![c].gbatches = @ + 1]
     \/ \E result \in BatchResults(chk[c].ids) :
          chk' = IF DOMAIN result = {}
                   THEN [chk EXCEPT ![c].pc = "done", ![c].err = "nil or empty",
                                    ![c].output = chk[c].message,
                                    ![c].gbatches = @ + 1]
                   ELSE [chk EXCEPT ![c].pc = "append", ![c].result = result,
                                    ![c].pending = DOMAIN result,
                                    ![c].gbatchVer = storeVer,
                                    ![c].gbatches = @ + 1]
  /\ UNCHANGED <<reg, codec, handler, useCache, store, storeVer, retVer, cache, now, sync, seeds, checkCalls,
                 cacheHits, cacheStaleHits, cacheMisses>>

\* client.BatchCheck: an error, or a result map (nil and empty fail alike)
CheckBatch(c) ==
  /\ chk[c].pc = "batch"
  /\ \/ chk' = [chk EXCEPT ![c].pc = "done", ![c].err = "batch",
                           ![c].gbatches = @ + 1]
     \/ \E result \in BatchResults(chk[c].ids) :
          chk' = IF DOMAIN result = {}
                   THEN [chk EXCEPT ![c].pc = "done", ![c].err = "nil or empty",
                                    ![c].gbatches = @ + 1]
                   ELSE [chk EXCEPT ![c].pc = "append", ![c].result = result,
                                    ![c].pending = DOMAIN result,
                                    ![c].gbatchVer = storeVer,
                                    ![c].gbatches = @ + 1]
  /\ UNCHANGED <<reg, codec, handler, useCache, store, storeVer, retVer, cache, now, sync, seeds, checkCalls,
                 cacheHits, cacheStaleHits, cacheMisses>>

\* appendToMessage: one iteration of the range over the result map, in any
\* order; the result is appended and Put in the cache, a failed Put is logged
\* (gnow and ginv are ghost fields: the instant of the Put and the inv entry
\* at that instant)
CheckAppend(c) ==
  /\ chk[c].pc = "append"
  /\ \E correlationID \in chk[c].pending :
       IF correlationID \notin DOMAIN chk[c].ids
         THEN /\ chk' = [chk EXCEPT ![c].pending = @ \ {correlationID}]
              /\ UNCHANGED cache
         ELSE LET req == chk[c].ids[correlationID]
                  allowed == FormatBool(chk[c].result[correlationID])
              IN \E ok \in BOOLEAN :
                   /\ chk' = [chk EXCEPT ![c].pending = @ \ {correlationID},
                                         ![c].message = @ \o Line(RelationKey(req), allowed),
                                         ![c].gappended = Append(@, correlationID),
                                         ![c].gputs =
                                           Append(@, [id |-> correlationID,
                                                      key |-> CacheKey(req),
                                                      value |-> allowed, ok |-> ok,
                                                      gnow |-> now, ginv |-> InvEntry])]
                   /\ cache' = IF ok
                                 THEN CachePut(cache, CacheKey(req), allowed, "check",
                                               chk[c].gbatchVer)
                                 ELSE cache
  /\ UNCHANGED <<reg, codec, handler, useCache, store, storeVer, retVer, now, sync, seeds, checkCalls,
                 cacheHits, cacheStaleHits, cacheMisses>>

\* after appendToMessage: the last newline is trimmed
CheckFinish(c) ==
  /\ chk[c].pc = "append"
  /\ chk[c].pending = {}
  /\ chk' = IF Len(chk[c].message) < 1
              THEN [chk EXCEPT ![c].pc = "done", ![c].err = "empty"]
              ELSE [chk EXCEPT ![c].pc = "done", ![c].output = TrimLast(chk[c].message)]
  /\ UNCHANGED <<reg, codec, handler, useCache, store, storeVer, retVer, cache, now, sync, seeds, checkCalls,
                 cacheHits, cacheStaleHits, cacheMisses>>

\* the caller is done with the result
CheckReset(c) ==
  /\ chk[c].pc = "done"
  /\ chk' = [chk EXCEPT ![c] = IdleCheck]
  /\ UNCHANGED <<reg, codec, handler, useCache, store, storeVer, retVer, cache, now, sync, seeds, checkCalls,
                 cacheHits, cacheStaleHits, cacheMisses>>

----------------------------------------------------------------------------
(* Specifications.                                                         *)

\* an inv entry left by an earlier sync
OldInv == [value |-> "1", created |-> 1, gsrc |-> "inv", gver |-> 0]

\* no parsing or encoding function under study
IdleCodec == [pc |-> "idle"]

\* no message delivered to a handler
IdleHandler == [pc |-> "idle"]

InitAny(stores, caches, clock, toggles) ==
  /\ codec = IdleCodec
  /\ handler = IdleHandler
  /\ reg = [r \in RegProcs |-> IdleReg]
  /\ useCache \in toggles
  /\ store \in stores
  /\ storeVer = 0
  /\ retVer = 0
  /\ cache \in caches
  /\ now = clock
  /\ sync = [p \in SyncProcs |-> IdleSync]
  /\ seeds = {}
  /\ chk = [c \in CheckProcs |-> IdleCheck]
  /\ checkCalls = 0
  /\ cacheHits = 0
  /\ cacheStaleHits = 0
  /\ cacheMisses = 0

\* the service started with USE_CACHE=true
InitWith(stores, caches, clock) == InitAny(stores, caches, clock, {TRUE})

\* one SyncObjectTuples call on any stored set with any desired list, the
\* cache holding an earlier inv or none
InitSync == InitWith(SUBSET StoreTuples, {EmptyMap, MapPut(EmptyMap, InvKey, OldInv)}, 1)

NextSync ==
  \/ \E relations \in SeqUpTo(DesiredTuples, MaxDesired) : SyncStart("s1", Object, relations)
  \/ SyncReadPage("s1")
  \/ SyncDiff("s1")
  \/ SyncWrite("s1")
  \/ SyncPutInv("s1")
  \/ \E s \in seeds : SeedRun(s)
  \/ Tick(SyncMaxTime)

SpecSync == InitSync /\ [][NextSync]_vars

\* the same call, whose caller may cancel its ctx once the call has returned
NextCancel ==
  \/ NextSync
  \/ CancelCaller("s1")

SpecCancel == InitSync /\ [][NextCancel]_vars

\* the tuples the concurrent runs work on
FewTuples == {TupleKey("user:a", "viewer", Object), TupleKey("team:t", "viewer", Object)}

\* two SyncObjectTuples calls on the same object, one call each
InitConc == InitWith(SUBSET FewTuples, {EmptyMap}, 1)

NextConc ==
  \/ \E p \in SyncProcs : \E relations \in SeqUpTo(FewTuples, MaxDesired) :
       SyncStart(p, Object, relations)
  \/ \E p \in SyncProcs : SyncReadPage(p)
  \/ \E p \in SyncProcs : SyncDiff(p)
  \/ \E p \in SyncProcs : SyncWrite(p)
  \/ \E p \in SyncProcs : SyncPutInv(p)
  \/ \E s \in seeds : SeedRun(s)

SpecConc == InitConc /\ [][NextConc]_vars

\* the user relation the race runs are about
OneTuple == {TupleKey("user:a", "viewer", Object)}

\* CheckRelationships calls on one user relation, one after the other, beside
\* one SyncObjectTuples call that grants or revokes it
InitRace == InitWith(SUBSET OneTuple, {EmptyMap}, 1)

NextRace ==
  \/ \E tuples \in SeqUpTo(OneTuple, MaxChecks) : CheckStart("c1", tuples)
  \/ CheckGetInv("c1")
  \/ CheckLookup("c1")
  \/ CheckDispatch("c1")
  \/ CheckBatch("c1")
  \/ CheckAppend("c1")
  \/ CheckFinish("c1")
  \/ CheckReset("c1")
  \/ \E relations \in SeqUpTo(OneTuple, 1) : SyncStart("s1", Object, relations)
  \/ SyncReadPage("s1")
  \/ SyncDiff("s1")
  \/ SyncWrite("s1")
  \/ SyncPutInv("s1")
  \/ \E s \in seeds : SeedRun(s)
  \/ Tick(SyncMaxTime)

SpecRace == InitRace /\ [][NextRace]_vars

\* the same calls with the service started with USE_CACHE true or false
InitToggle == InitAny(SUBSET OneTuple, {EmptyMap}, 1, BOOLEAN)

SpecToggle == InitToggle /\ [][NextRace]_vars

\* the caches earlier calls can have left: inv or none, and for each relation
\* an entry or none, each created at some instant up to now
CachesOver(keys, values, times) ==
  UNION {[D -> [value : values, created : times, gsrc : {"old"}, gver : {0}]] :
           D \in SUBSET keys}

OldCaches ==
  {c \in CachesOver({InvKey} \cup {CacheKey(t) : t \in FewTuples}, {"1", "true", "false"},
                    1..MaxTime) :
     \A k \in DOMAIN c : (k = InvKey) <=> (c[k].value = "1")}

\* a CheckRelationships call on any cache and any stored set
InitCheck == InitWith(SUBSET FewTuples, OldCaches, MaxTime)

NextCheck ==
  \/ \E tuples \in SeqUpTo(FewTuples, MaxChecks) : CheckStart("c1", tuples)
  \/ CheckGetInv("c1")
  \/ CheckLookup("c1")
  \/ CheckDispatch("c1")
  \/ CheckBatch("c1")
  \/ CheckAppend("c1")
  \/ CheckFinish("c1")

\* the caches that decide what goes to the gateway: a relation entry created
\* at instant 1 or 2, and inv absent or created at instant 2, under which the
\* entries of instant 1 are stale and those of instant 2 are served
GatewayCaches ==
  {c \in OldCaches :
     \A k \in DOMAIN c : c[k].created <= 2 /\ (k = InvKey => c[k].created = 2)}

\* one whole CheckRelationships call, the gateway answering with any result
\* map, on any stored set of the one tuple the store can allow
InitGateway == InitWith(SUBSET OneTuple, GatewayCaches, MaxTime)

SpecCheck == InitGateway /\ [][NextCheck]_vars

\* the cache phase of one CheckRelationships call on any cache: up to the
\* return of the cached message or the building of the BatchCheck request
NextLookup ==
  \/ \E tuples \in SeqUpTo(FewTuples, MaxChecks) : CheckStart("c1", tuples)
  \/ CheckGetInv("c1")
  \/ CheckLookup("c1")
  \/ CheckDispatch("c1")

SpecLookup == InitCheck /\ [][NextLookup]_vars

\* a CheckRelationships call and, once it has returned, a second one, beside
\* one SyncObjectTuples call on the object and the passing of time
InitRepeat == InitWith(SUBSET OneTuple, {EmptyMap}, 1)

NextRepeat ==
  \/ \E t \in OneTuple : CheckStart("c1", <<t>>)
  \/ chk["c1"].pc = "done" /\ CheckStart("c2", chk["c1"].tuples)
  \/ \E c \in CheckProcs : CheckGetInv(c)
  \/ \E c \in CheckProcs : CheckLookup(c)
  \/ \E c \in CheckProcs : CheckDispatch(c)
  \/ \E c \in CheckProcs : CheckBatch(c)
  \/ \E c \in CheckProcs : CheckAppend(c)
  \/ \E c \in CheckProcs : CheckFinish(c)
  \/ \E relations \in SeqUpTo(OneTuple, 1) : SyncStart("s1", Object, relations)
  \/ SyncReadPage("s1")
  \/ SyncDiff("s1")
  \/ SyncWrite("s1")
  \/ SyncPutInv("s1")
  \/ \E s \in seeds : SeedRun(s)
  \/ Tick(MaxTime)

SpecRepeat == InitRepeat /\ [][NextRepeat]_vars

----------------------------------------------------------------------------
(* Properties of SyncObjectTuples.                                         *)

\* the set a desired list stands for: an empty object is bound to the target,
\* a tuple of another object is dropped, duplicates collapse
NormSet(object, relations) ==
  {TupleKey(relations[i].user, relations[i].relation, object) :
     i \in {j \in 1..Len(relations) : relations[j].object \in {"", object}}}

StoredFor(object) == {t \in store : t.object = object}

Returned(p) == sync[p].pc = "done"

Wrote(p) == Len(sync[p].writes) > 0 \/ Len(sync[p].deletes) > 0

Did(p, step) == \E i \in 1..Len(sync[p].gtrace) : sync[p].gtrace[i] = step

\* C1: after a SyncObjectTuples(O, D) call that returned no error and that no
\* other call overlapped, the tuples stored for O are exactly the set D stands
\* for after normalization.
C1_SyncReachesDesired ==
  \A p \in SyncProcs :
    (Returned(p) /\ sync[p].err = "" /\ sync[p].gothers = 0)
      => StoredFor(sync[p].object) = NormSet(sync[p].object, sync[p].relations)

\* C1 witness: a call that wrote and deleted, from a list with a duplicate
\* and a tuple of another object, has returned nil.
C1_Witness ==
  /\ Returned("s1") /\ sync["s1"].err = "" /\ sync["s1"].gothers = 0
  /\ Len(sync["s1"].writes) > 0 /\ Len(sync["s1"].deletes) > 0
  /\ \E i \in 1..Len(sync["s1"].relations) : sync["s1"].relations[i].object = OtherObject

StepRank(step) ==
  CASE step \in {"read", "readerr"} -> 1
    [] step \in {"write", "writeerr"} -> 2
    [] step \in {"inv", "inverr"} -> 3
    [] step \in {"seed", "seederr"} -> 4

\* C3: within one call the steps are ordered: every Read page, then the
\* Write, then Put("inv"), then the seed PutStrings; so every seeded entry is
\* created after the inv entry of the same sync.
C3_StepsOrdered ==
  \A p \in SyncProcs :
    /\ \A i, j \in 1..Len(sync[p].gtrace) :
         i < j => StepRank(sync[p].gtrace[i]) <= StepRank(sync[p].gtrace[j])
    /\ Did(p, "inv") =>
         \A k \in DOMAIN cache : cache[k].gsrc = "seed" => cache[k].created > InvCreated

\* C7: when the tuples read for the object are exactly the normalized desired
\* set, the call returns empty writes, empty deletes and no error, and does no
\* Write, no Put("inv") and starts no seed.
C7_NoOpSync ==
  \A p \in SyncProcs :
    (Returned(p) /\ sync[p].err # "read"
       /\ SeqToSet(sync[p].tuples) = NormSet(sync[p].object, sync[p].relations))
      => /\ sync[p].writes = <<>> /\ sync[p].deletes = <<>> /\ sync[p].err = ""
         /\ \A i \in 1..Len(sync[p].gtrace) : sync[p].gtrace[i] = "read"
         /\ \A s \in seeds : s.owner # p

\* C7 witness: a call whose desired list names the two stored tuples, one of
\* them a user, has returned.
C7_Witness ==
  /\ Returned("s1") /\ sync["s1"].err = ""
  /\ Len(sync["s1"].tuples) = 2
  /\ SeqToSet(sync["s1"].tuples) = NormSet(Object, sync["s1"].relations)
  /\ \E i \in 1..2 : IsSeeded(sync["s1"].tuples[i])

\* C8 as stated: after a successful call that wrote or deleted a tuple, the
\* inv entry is created strictly later than the inv seen before the call.
C8_InvStrictlyLater ==
  \A p \in SyncProcs :
    (Returned(p) /\ sync[p].err = "" /\ Wrote(p)) => InvCreated > sync[p].ginvBefore

\* C8 amended: after a successful call that wrote or deleted a tuple, if its
\* Put("inv") succeeded the inv entry carries the cache clock of that Put: not
\* earlier than the start of the call, which is not earlier than the inv seen
\* before the call (so strictly later once the clock has advanced); if the Put
\* failed, inv is left as it was.
C8_InvLaterWhenPut ==
  \A p \in SyncProcs :
    (Returned(p) /\ sync[p].err = "" /\ Wrote(p))
      => IF Did(p, "inv")
           THEN /\ InvKey \in DOMAIN cache
                /\ InvCreated >= sync[p].gstartNow
                /\ sync[p].gstartNow >= sync[p].ginvBefore
           ELSE InvCreated = sync[p].ginvBefore

\* C8 witness: a call that wrote replaced an earlier inv by a later one.
C8_Witness ==
  /\ Returned("s1") /\ sync["s1"].err = "" /\ Wrote("s1") /\ Did("s1", "inv")
  /\ sync["s1"].ginvBefore > 0
  /\ InvCreated > sync["s1"].ginvBefore

\* C6 as stated: when two calls on the same object overlap and both return
\* nil, the stored set is the normalized desired set of one of them.
BothReturned ==
  \A p \in SyncProcs : Returned(p) /\ sync[p].err = "" /\ sync[p].gothers = 1

C6_ReconvergesToOne ==
  BothReturned
    => \E p \in SyncProcs : StoredFor(Object) = NormSet(Object, sync[p].relations)

\* C6 amended: when two calls on the same object overlap and both return nil,
\* the stored set holds every tuple both desired sets hold and no tuple
\* neither holds; it can be a mixture of the two.
C6_BetweenBoth ==
  BothReturned
    => /\ StoredFor(Object) \subseteq
            NormSet(Object, sync["s1"].relations) \cup NormSet(Object, sync["s2"].relations)
       /\ NormSet(Object, sync["s1"].relations) \cap NormSet(Object, sync["s2"].relations)
            \subseteq StoredFor(Object)

\* C6 witness: two overlapping calls that both wrote have returned nil, and
\* the stored set is the desired set of neither.
C6_Witness ==
  /\ BothReturned
  /\ \A p \in SyncProcs : Wrote(p) /\ StoredFor(Object) # NormSet(Object, sync[p].relations)

----------------------------------------------------------------------------
(* Properties of CheckRelationships.                                       *)

Lookups(c, outcome) ==
  {k \in 1..Len(chk[c].glookups) : chk[c].glookups[k].outcome = outcome}

\* C4: a call that began after a sync had returned nil answers no check from
\* a cache entry whose value was read from the store before that sync's Write.
C4_NoAnswerFromBeforeSync ==
  \A c \in CheckProcs : \A k \in Lookups(c, "hit") :
    chk[c].glookups[k].gsrc = "check" => chk[c].glookups[k].gver >= chk[c].gminVer

LineOf(t, value) == RelationKey(t) \o "\t" \o value

LinesFor(t) == {LineOf(t, value) : value \in {"true", "false"}}

Answered(c) == chk[c].pc = "done" /\ chk[c].err = "" /\ Len(chk[c].tuples) > 0

\* C9: a non-empty list of N checks answered without error gives N lines, one
\* per check, object#relation@user<TAB>true|false, and no trailing newline.
C9_OneLinePerCheck ==
  \A c \in CheckProcs :
    Answered(c) =>
      LET n == Len(chk[c].tuples)
          out == chk[c].output
      IN /\ Len(out) = 2 * n - 1
         /\ \A k \in 1..(n - 1) : out[2 * k] = "\n"
         /\ \E f \in Permutations(1..n) :
              \A k \in 1..n : out[2 * k - 1] \in LinesFor(chk[c].tuples[f[k]])

\* C10: the lines of the output are in the order of the input checks.
C10_InputOrder ==
  \A c \in CheckProcs :
    Answered(c) =>
      LET n == Len(chk[c].tuples)
          out == chk[c].output
          lines == (Len(out) + 1) \div 2
      IN \E f \in [1..lines -> 1..n] :
           /\ \A j, k \in 1..lines : j < k => f[j] < f[k]
           /\ \A k \in 1..lines : out[2 * k - 1] \in LinesFor(chk[c].tuples[f[k]])

\* a lookup that sent its check to the live list
NotHit(l) == l.outcome # "hit"

IsHit(l) == l.outcome = "hit"

\* the bytes the hits among the lookups ls put in the message, the values read
\* from the cache the call found
HitBytes(c, ls) ==
  LET h == SelectSeq(ls, IsHit)
  IN [m \in 1..(2 * Len(h)) |->
        IF m % 2 = 1
          THEN LineOf(chk[c].tuples[h[(m + 1) \div 2].i],
                      chk[c].gcache0[CacheKey(chk[c].tuples[h[(m + 1) \div 2].i])].value)
          ELSE "\n"]

\* C11: when Get("inv") says not-found the invalidation instant is the zero
\* time and every relation entry the call finds is served as a hit: no lookup
\* is stale, and a lookup misses only when the key is absent.
C11_NoInvNoStale ==
  \A c \in CheckProcs :
    chk[c].ginv = "not found"
      => /\ chk[c].lastInvalidation = 0
         /\ Lookups(c, "stale") = {}
         /\ cacheStaleHits = chk[c].gstale0
         /\ \A k \in Lookups(c, "miss") :
              CacheKey(chk[c].tuples[chk[c].glookups[k].i]) \notin DOMAIN chk[c].gcache0

\* C11 witness: with inv absent, an entry created before now was served.
C11_Witness ==
  /\ chk["c1"].ginv = "not found"
  /\ \E k \in Lookups("c1", "hit") : chk["c1"].glookups[k].created < now

\* C12: when Get("inv") fails with another error the call returns that error
\* with no output, having done no relation lookup, no BatchCheck and no Put.
C12_InvErrorAborts ==
  \A c \in CheckProcs :
    chk[c].ginv = "error"
      => /\ chk[c].pc = "done" /\ chk[c].err = "inv" /\ chk[c].output = <<>>
         /\ chk[c].glookups = <<>>
         /\ chk[c].gbatches = 0
         /\ chk[c].gputs = <<>>
         /\ cache = chk[c].gcache0
         /\ cacheHits = chk[c].ghits0 /\ cacheStaleHits = chk[c].gstale0
         /\ cacheMisses = chk[c].gmiss0

\* C12 witness: Get("inv") failed in a call of two checks whose entries are
\* in the cache.
C12_Witness ==
  /\ chk["c1"].ginv = "error"
  /\ Len(chk["c1"].tuples) = 2
  /\ \A i \in 1..2 : CacheKey(chk["c1"].tuples[i]) \in DOMAIN cache

\* C13: when the lookup of check i fails with a transport error, no counter
\* moves for it, the loop stops, check i and every later check go to the live
\* list once each after the earlier misses and stale hits, the lines of the
\* earlier hits stay in the message, and the call goes on to BatchCheck
\* without an error.
C13_TransportErrorDegrades ==
  \A c \in CheckProcs : \A k \in Lookups(c, "error") :
    LET i == chk[c].glookups[k].i
        before == SubSeq(chk[c].glookups, 1, k - 1)
        live == SelectSeq(before, NotHit)
    IN /\ k = Len(chk[c].glookups)
       /\ i = k
       /\ chk[c].i = Len(chk[c].tuples) + 1
       /\ chk[c].tuplesToCheck =
            [j \in 1..Len(live) |-> chk[c].tuples[live[j].i]]
              \o SubSeq(chk[c].tuples, i, Len(chk[c].tuples))
       /\ cacheHits - chk[c].ghits0 = Cardinality(Lookups(c, "hit"))
       /\ cacheStaleHits - chk[c].gstale0 = Cardinality(Lookups(c, "stale"))
       /\ cacheMisses - chk[c].gmiss0 = Cardinality(Lookups(c, "miss"))
       /\ chk[c].pc \in {"lookup", "batch"} =>
            chk[c].err = "" /\ chk[c].message = HitBytes(c, before)
       /\ chk[c].pc = "done" => chk[c].gbatches = 1 /\ chk[c].err \in {"", "batch", "nil or empty", "empty"}
       /\ (chk[c].pc = "done" /\ chk[c].err = "") =>
            /\ SubSeq(chk[c].message, 1, 2 * Cardinality(Lookups(c, "hit")))
                 = HitBytes(c, before)
            /\ chk[c].output = TrimLast(chk[c].message)

\* C13 witness: the first check was a hit, the lookup of the second failed,
\* and the call returned two lines.
C13_Witness ==
  /\ chk["c1"].pc = "done" /\ chk["c1"].err = ""
  /\ Lookups("c1", "hit") = {1} /\ Lookups("c1", "error") = {2}
  /\ Len(chk["c1"].output) = 3

\* the decimal numerals
Decimal == <<"1", "2", "3", "4">>

\* the call has built its BatchCheck request
Sent(c) == chk[c].pc \in {"batch", "append"} \/ chk[c].gbatches > 0

\* C14: the correlation ids of the outbound BatchCheck are the decimal
\* strings "1".."N", N the length of the live list, the id of position k being
\* the numeral of k: the ids map one to one onto the positions of the list.
C14_CorrelationIds ==
  \A c \in CheckProcs :
    Sent(c) =>
      LET N == Len(chk[c].tuplesToCheck)
      IN /\ DOMAIN chk[c].ids = {Decimal[k] : k \in 1..N}
         /\ Cardinality(DOMAIN chk[c].ids) = N
         /\ \A k \in 1..N : chk[c].ids[Decimal[k]] = chk[c].tuplesToCheck[k]

\* C14 witness: a request of two different checks is about to be sent.
C14_Witness ==
  /\ chk["c1"].pc = "batch"
  /\ Len(chk["c1"].tuplesToCheck) = 2
  /\ chk["c1"].tuplesToCheck[1] # chk["c1"].tuplesToCheck[2]

\* C15: when BatchCheck fails or its result map is nil or empty, the call
\* returns an error and no output, the lines of the cache hits included, and
\* writes no relation entry to the cache.
C15_GatewayFailureNoOutput ==
  \A c \in CheckProcs :
    chk[c].err \in {"batch", "nil or empty"}
      => /\ chk[c].pc = "done"
         /\ chk[c].output = <<>>
         /\ chk[c].gputs = <<>>
         /\ cache = chk[c].gcache0

\* C15 witness: the gateway failed after a cache hit had been put in the
\* message.
C15_Witness ==
  /\ chk["c1"].err \in {"batch", "nil or empty"}
  /\ Lookups("c1", "hit") # {}
  /\ Len(chk["c1"].message) > 0

\* the bytes appendToMessage adds for the Puts ps, whatever their outcome
PutBytes(c, ps) ==
  [m \in 1..(2 * Len(ps)) |->
     IF m % 2 = 1
       THEN LineOf(chk[c].ids[ps[(m + 1) \div 2].id],
                   IF chk[c].result[ps[(m + 1) \div 2].id] THEN "true" ELSE "false")
       ELSE "\n"]

\* appendToMessage has ranged over the whole result map
Appended(c) ==
  \/ chk[c].pc = "append" /\ chk[c].pending = {}
  \/ chk[c].pc = "done" /\ chk[c].gbatches > 0 /\ chk[c].err \notin {"batch", "nil or empty"}

\* C16: every correlation id of the response that maps to a sent check gets
\* one Put of that check's cache key with "true" or "false" as the allowed
\* flag says; a Put that succeeded left that value in the cache; a Put that
\* failed fails nothing: the message is the hit lines followed by one line per
\* such id, the same whether the Puts succeeded or not.
C16_ResultsCached ==
  \A c \in CheckProcs :
    /\ \A k \in 1..Len(chk[c].gputs) :
         LET e == chk[c].gputs[k]
         IN /\ e.id \in DOMAIN chk[c].result \cap DOMAIN chk[c].ids
            /\ e.key = CacheKey(chk[c].ids[e.id])
            /\ e.value = (IF chk[c].result[e.id] THEN "true" ELSE "false")
            /\ e.ok => /\ e.key \in DOMAIN cache
                       /\ cache[e.key].value = e.value
                       /\ cache[e.key].gsrc = "check"
    /\ Appended(c) =>
         /\ {chk[c].gputs[k].id : k \in 1..Len(chk[c].gputs)}
              = DOMAIN chk[c].result \cap DOMAIN chk[c].ids
         /\ Len(chk[c].gputs) = Cardinality(DOMAIN chk[c].result \cap DOMAIN chk[c].ids)
         /\ chk[c].message = HitBytes(c, chk[c].glookups) \o PutBytes(c, chk[c].gputs)
         /\ (chk[c].pc = "done" /\ chk[c].gputs # <<>>) =>
              chk[c].err = "" /\ chk[c].output = TrimLast(chk[c].message)

\* C16 witness: of two results one Put failed and one succeeded with the
\* value "false", and the call returned two lines.
C16_Witness ==
  /\ chk["c1"].pc = "done" /\ chk["c1"].err = ""
  /\ Len(chk["c1"].gputs) = 2
  /\ ~chk["c1"].gputs[1].ok
  /\ chk["c1"].gputs[2].ok /\ chk["c1"].gputs[2].value = "false"
  /\ Len(chk["c1"].output) = 3

\* every check of the call was looked up and found fresh
AllHits(c) ==
  /\ Len(chk[c].tuples) > 0
  /\ Len(chk[c].glookups) = Len(chk[c].tuples)
  /\ Lookups(c, "hit") = 1..Len(chk[c].tuples)

\* C17: when every check is answered by a fresh cache hit the call returns
\* the hit lines, with no BatchCheck and no Put.
C17_AllHitsNoGateway ==
  \A c \in CheckProcs :
    AllHits(c)
      => /\ chk[c].pc \in {"lookup", "done"}
         /\ chk[c].gbatches = 0
         /\ chk[c].gputs = <<>>
         /\ cache = chk[c].gcache0
         /\ chk[c].pc = "done" =>
              /\ chk[c].err = ""
              /\ chk[c].output = TrimLast(HitBytes(c, chk[c].glookups))

\* C17 witness: a call of two different checks, both hits, has returned.
C17_Witness ==
  /\ AllHits("c1") /\ chk["c1"].pc = "done"
  /\ Len(chk["c1"].tuples) = 2 /\ chk["c1"].tuples[1] # chk["c1"].tuples[2]

\* C18: with the "use cache" toggle false, CheckRelationships looks up
\* neither inv nor a relation key and sends every check to BatchCheck, and
\* SyncObjectTuples seeds nothing.
C18_ToggleOffBypassesCache ==
  ~useCache
    => /\ \A c \in CheckProcs :
            /\ chk[c].ginv = ""
            /\ chk[c].glookups = <<>>
            /\ Sent(c) => chk[c].tuplesToCheck = chk[c].tuples
       /\ seeds = {}
       /\ \A p \in SyncProcs : sync[p].gseeded = {}

\* the times a step is in the trace of call p
Times(p, step) == Cardinality({i \in 1..Len(sync[p].gtrace) : sync[p].gtrace[i] = step})

\* C19: when the Put("inv") after a successful Write fails, the call returns
\* the writes and deletes it computed and a nil error; the Write was done
\* once and stays applied.
C19_InvPutFailureTolerated ==
  \A p \in SyncProcs :
    Did(p, "inverr")
      => LET want == NormSet(sync[p].object, sync[p].relations)
             read == SeqToSet(sync[p].tuples)
         IN /\ Returned(p) /\ sync[p].err = ""
            /\ SeqToSet(sync[p].writes) = want \ read
            /\ SeqToSet(sync[p].deletes) = read \ want
            /\ Times(p, "write") = 1 /\ Times(p, "writeerr") = 0
            /\ sync[p].gothers = 0 => StoredFor(sync[p].object) = want
            /\ ~Did(p, "inv")

\* C19 witness: a call that wrote and deleted returned after its Put("inv")
\* failed.
C19_Witness ==
  /\ Did("s1", "inverr")
  /\ Len(sync["s1"].writes) > 0 /\ Len(sync["s1"].deletes) > 0

\* the diff of call p is done
Diffed(p) == sync[p].pc \in {"write", "inv"} \/ (Returned(p) /\ sync[p].err # "read")

\* C20: the seeds a call schedules are the cache keys of exactly its writes
\* whose user is a user: principal, user:* included; a write of another
\* subject type, a delete and a desired tuple the store already held get
\* none.  Each seed runs once and Puts "true".
C20_SeedsUserWrites ==
  \A p \in SyncProcs :
    LET want == NormSet(sync[p].object, sync[p].relations)
        read == SeqToSet(sync[p].tuples)
        mine == {s \in seeds : s.owner = p}
    IN /\ ~Diffed(p) => sync[p].gseeded = {} /\ mine = {}
       /\ Diffed(p) =>
            /\ sync[p].gseeded =
                 {CacheKey(t) : t \in {w \in want \ read : w.user \in {"user:a", "user:*"}}}
            /\ {s.key : s \in mine} \subseteq sync[p].gseeded
            /\ Cardinality(mine) + Times(p, "seed") + Times(p, "seederr")
                 = Cardinality(sync[p].gseeded)
       /\ \A k \in DOMAIN cache : cache[k].gsrc = "seed" => cache[k].value = "true"

\* C20 witness: a call wrote a user:* tuple and a tuple of another subject
\* type and deleted a user tuple; only the first was seeded.
C20_Witness ==
  /\ Diffed("s1")
  /\ SeqToSet(sync["s1"].writes) =
       {TupleKey("user:*", "viewer", Object), TupleKey("team:t", "viewer", Object)}
  /\ sync["s1"].deletes = <<TupleKey("user:a", "writer", Object)>>
  /\ sync["s1"].gseeded = {CacheKey(TupleKey("user:*", "viewer", Object))}

----------------------------------------------------------------------------
(* The seed goroutines and the caller's context.                           *)

\* the seed goroutines of p that ended on the cancellation of p's ctx
CancelledSeeds(p) ==
  Cardinality({i \in 1..Len(sync[p].gtrace) : sync[p].gtrace[i] = "seedcancelled"})

\* C21: cancelling the caller's ctx after SyncObjectTuples has returned does
\* not cancel a seed write that is still pending: no seed goroutine ends on
\* that cancellation.
C21_SeedOutlivesCallerCancel ==
  \A p \in SyncProcs : CancelledSeeds(p) = 0

----------------------------------------------------------------------------
(* The writes list.                                                        *)

MaxDup == 3          \* longest desired list with conditions

\* a ClientTupleKey with its Condition set
TupleKeyWithCondition(user, relation, object, condition) ==
  [user |-> user, relation |-> relation, object |-> object, condition |-> condition]

\* desired tuples that share (user, relation) and differ in object and condition
DupTuples ==
  {TupleKeyWithCondition("user:a", "writer", "", "c1"),
   TupleKeyWithCondition("user:a", "writer", Object, "c2"),
   TupleKeyWithCondition("user:a", "writer", OtherObject, "c3"),
   TupleKey("team:t", "viewer", Object)}

\* one SyncObjectTuples call up to its Write, on desired lists with duplicates
InitDup == InitWith(SUBSET FewTuples, {EmptyMap}, 1)

NextDup ==
  \/ \E relations \in SeqUpTo(DupTuples, MaxDup) : SyncStart("s1", Object, relations)
  \/ SyncReadPage("s1")
  \/ SyncDiff("s1")
  \/ SyncWrite("s1")

SpecDup == InitDup /\ [][NextDup]_vars

\* the entries of the desired list that stand for (user, relation) on the object
Eligible(p, user, relation) ==
  {j \in 1..Len(sync[p].relations) :
     /\ sync[p].relations[j].user = user
     /\ sync[p].relations[j].relation = relation
     /\ sync[p].relations[j].object \in {"", sync[p].object}}

MaxOf(S) == CHOOSE x \in S : \A y \in S : y <= x

\* C22: in the writes list every tuple has the target object, no two tuples
\* share (user, relation), and each write is the last entry of the desired
\* list for its (user, relation) among those naming the target or no object,
\* bound to the target; entries naming another object give no write.
C22_WritesNormalised ==
  \A p \in SyncProcs :
    Diffed(p) =>
      LET writes == sync[p].writes
      IN /\ \A i \in 1..Len(writes) : writes[i].object = sync[p].object
         /\ \A i, j \in 1..Len(writes) :
              (writes[i].user = writes[j].user /\ writes[i].relation = writes[j].relation)
                => i = j
         /\ \A i \in 1..Len(writes) :
              LET idx == Eligible(p, writes[i].user, writes[i].relation)
              IN /\ idx # {}
                 /\ writes[i] = [sync[p].relations[MaxOf(idx)] EXCEPT !.object = sync[p].object]

\* C22 witness: a list of an entry for another object and two entries for
\* the same (user, relation) with different conditions, the first without
\* object, gave the single write of the last entry.
C22_Witness ==
  /\ Diffed("s1")
  /\ sync["s1"].relations =
        <<TupleKeyWithCondition("user:a", "writer", OtherObject, "c3"),
          TupleKeyWithCondition("user:a", "writer", Object, "c2"),
          TupleKeyWithCondition("user:a", "writer", "", "c1")>>
  /\ sync["s1"].writes = <<TupleKeyWithCondition("user:a", "writer", Object, "c1")>>

----------------------------------------------------------------------------
(* The check request parser.  A []byte is a sequence of one-character      *)
(* strings.                                                                *)

MaxPayload == 6      \* longest payload handed to the parser

\* the bytes of a line: two letters and the two separators
LineChars == {"a", "b", "#", "@"}

\* the bytes of a payload
PayloadChars == LineChars \cup {"\n"}

\* bytes.IndexByte: the first place of c in s, 0 when there is none
IndexByte(s, c) ==
  IF \E i \in 1..Len(s) : s[i] = c
    THEN CHOOSE i \in 1..Len(s) : s[i] = c /\ \A j \in 1..(i - 1) : s[j] # c
    ELSE 0

\* bytes.Cut that leaves the separator at the head of after
Cut_KeepsSep(s, sep) ==
  LET i == IndexByte(s, sep)
  IN IF i = 0 THEN [before |-> s, after |-> <<>>, found |-> FALSE]
     ELSE [before |-> SubSeq(s, 1, i - 1), after |-> SubSeq(s, i, Len(s)), found |-> TRUE]

\* bytes.Cut: s around the first sep
Cut(s, sep) ==
  LET i == IndexByte(s, sep)
  IN IF i = 0 THEN [before |-> s, after |-> <<>>, found |-> FALSE]
     ELSE [before |-> SubSeq(s, 1, i - 1), after |-> SubSeq(s, i + 1, Len(s)), found |-> TRUE]

\* bytes.Split: the pieces of s between the seps, one more than the seps
RECURSIVE Split(_, _)
Split(s, sep) ==
  LET c == Cut(s, sep)
  IN IF c.found THEN <<c.before>> \o Split(c.after, sep) ELSE <<s>>

\* a nil error
NoError == [text |-> "", line |-> <<>>]

\* fmt.Errorf("invalid check request: %s", line)
InvalidCheckRequest(line) == [text |-> "invalid check request: ", line |-> line]

ClientCheckRequest(user, relation, object) ==
  [user |-> user, relation |-> relation, object |-> object]

\* the result is the pointer (no element: nil) and the error
parseCheckRequest(line) ==
  LET first == Cut(line, "@")
  IN IF ~first.found
       THEN [request |-> <<>>, err |-> InvalidCheckRequest(line)]
       ELSE LET second == Cut(first.before, "#")
            IN IF ~second.found
                 THEN [request |-> <<>>, err |-> InvalidCheckRequest(line)]
                 ELSE [request |-> <<ClientCheckRequest(first.after, second.after,
                                                        second.before)>>,
                       err |-> NoError]

\* ExtractCheckRequests that goes on to the next line after a line in error
ExtractCheckRequests_SkipsBad(payload) ==
  LET lines == Split(payload, "\n")
      step[i \in 0..Len(lines)] ==
        IF i = 0 THEN <<>>
        ELSE step[i - 1] \o parseCheckRequest(lines[i]).request
  IN [requests |-> step[Len(lines)], err |-> NoError]

\* the loop over the lines: an empty line is skipped, the first line in error
\* returns nil and the error
ExtractCheckRequests(payload) ==
  LET lines == Split(payload, "\n")
      step[i \in 0..Len(lines)] ==
        IF i = 0 THEN [requests |-> <<>>, err |-> NoError]
        ELSE LET prev == step[i - 1]
                 line == lines[i]
                 parsed == parseCheckRequest(line)
             IN IF prev.err # NoError \/ Len(line) = 0 THEN prev
                ELSE IF parsed.err # NoError THEN [requests |-> <<>>, err |-> parsed.err]
                ELSE [prev EXCEPT !.requests = Append(@, parsed.request[1])]
  IN step[Len(lines)]

\* a payload handed to the parser
ReadyCodec(payload) ==
  [pc |-> "ready", payload |-> payload, request |-> <<>>, requests |-> <<>>, err |-> NoError]

\* parseCheckRequest is applied to a line
ParseLine ==
  /\ codec.pc = "ready"
  /\ IndexByte(codec.payload, "\n") = 0
  /\ LET parsed == parseCheckRequest(codec.payload)
     IN codec' = [codec EXCEPT !.pc = "parsed", !.request = parsed.request,
                               !.err = parsed.err]
  /\ UNCHANGED <<reg, handler, useCache, store, storeVer, retVer, cache, now, sync, seeds, chk,
                 checkCalls, cacheHits, cacheStaleHits, cacheMisses>>

\* ExtractCheckRequests is applied to a payload
Extract ==
  /\ codec.pc = "ready"
  /\ LET extracted == ExtractCheckRequests(codec.payload)
     IN codec' = [codec EXCEPT !.pc = "extracted", !.requests = extracted.requests,
                               !.err = extracted.err]
  /\ UNCHANGED <<reg, handler, useCache, store, storeVer, retVer, cache, now, sync, seeds, chk,
                 checkCalls, cacheHits, cacheStaleHits, cacheMisses>>

\* the variables of the service while a function is studied alone
ServiceAtRest ==
  /\ handler = IdleHandler
  /\ reg = [r \in RegProcs |-> IdleReg]
  /\ useCache = TRUE
  /\ store = {}
  /\ storeVer = 0
  /\ retVer = 0
  /\ cache = EmptyMap
  /\ now = 1
  /\ sync = [p \in SyncProcs |-> IdleSync]
  /\ seeds = {}
  /\ chk = [c \in CheckProcs |-> IdleCheck]
  /\ checkCalls = 0
  /\ cacheHits = 0
  /\ cacheStaleHits = 0
  /\ cacheMisses = 0

\* the parser on every payload of at most MaxPayload bytes
InitParse ==
  /\ codec \in {ReadyCodec(payload) : payload \in SeqUpTo(PayloadChars, MaxPayload)}
  /\ ServiceAtRest

NextParse ==
  \/ ParseLine
  \/ Extract

SpecParse == InitParse /\ [][NextParse]_vars

\* the separators of the wire format and the line end
Separators == {"#", "@", "\n"}

\* the number of bytes c in s
CountByte(s, c) == Cardinality({i \in 1..Len(s) : s[i] = c})

\* object, relation and user are non-empty and free of separators, and line
\* is object#relation@user with the '#' at i and the '@' at j
Formatted(line, i, j) ==
  /\ 1 < i /\ i + 1 < j /\ j < Len(line)
  /\ line[i] = "#" /\ line[j] = "@"
  /\ \A k \in (1..Len(line)) \ {i, j} : line[k] \notin Separators

Parsed == codec.pc = "parsed"

\* C23: parsing object#relation@user with non-empty components free of
\* newline, '#' and '@' returns the three components unchanged; "#@" parses
\* to three empty components; a line without '@', and a line with no '#'
\* left of its '@', are errors.
C23_ParseInvertsFormat ==
  Parsed =>
    LET line == codec.payload
    IN /\ \A i, j \in 1..Len(line) :
            Formatted(line, i, j) =>
              /\ codec.err = NoError
              /\ codec.request =
                   <<ClientCheckRequest(SubSeq(line, j + 1, Len(line)),
                                        SubSeq(line, i + 1, j - 1),
                                        SubSeq(line, 1, i - 1))>>
       /\ line = <<"#", "@">> =>
            /\ codec.err = NoError
            /\ codec.request = <<ClientCheckRequest(<<>>, <<>>, <<>>)>>
       /\ CountByte(line, "@") = 0 =>
            codec.err = InvalidCheckRequest(line) /\ codec.request = <<>>
       /\ (CountByte(line, "@") > 0
            /\ \A k \in 1..IndexByte(line, "@") : line[k] # "#") =>
            codec.err = InvalidCheckRequest(line) /\ codec.request = <<>>

\* C23 witness: "ab#b@a" was parsed into user "a", relation "b", object "ab".
C23_Witness ==
  /\ Parsed
  /\ codec.payload = <<"a", "b", "#", "b", "@", "a">>
  /\ codec.request = <<ClientCheckRequest(<<"a">>, <<"b">>, <<"a", "b">>)>>

\* C24: a line is accepted only if it holds exactly one '@' and a '#' left
\* of it; a line with two or more '@' is an error.
C24_ExactlyOneAt ==
  Parsed =>
    (codec.err = NoError =>
       /\ CountByte(codec.payload, "@") = 1
       /\ \E k \in 1..IndexByte(codec.payload, "@") : codec.payload[k] = "#")

Extracted == codec.pc = "extracted"

\* the places of the line ends of a payload, with the two ends of the payload
LineEnds(payload) ==
  {0, Len(payload) + 1} \cup {i \in 1..Len(payload) : payload[i] = "\n"}

\* the non-blank lines of a payload, as the pairs of line ends around them
NonBlank(payload) ==
  {e \in LineEnds(payload) \X LineEnds(payload) :
     /\ e[1] + 1 < e[2]
     /\ \A k \in (e[1] + 1)..(e[2] - 1) : payload[k] # "\n"}

LineAt(payload, e) == SubSeq(payload, e[1] + 1, e[2] - 1)

\* C25: the payload is split on newline, blank lines are skipped and the
\* parsed checks come back in line order; if a non-blank line does not parse,
\* wherever it stands, the call returns an error naming the first such line
\* and no check request.
C25_ExtractAllOrNothing ==
  Extracted =>
    LET payload == codec.payload
        lines == NonBlank(payload)
        bad == {e \in lines : parseCheckRequest(LineAt(payload, e)).err # NoError}
    IN IF bad = {}
         THEN /\ codec.err = NoError
              /\ Len(codec.requests) = Cardinality(lines)
              /\ \A e \in lines :
                   LET n == Cardinality({f \in lines : f[1] <= e[1]})
                   IN <<codec.requests[n]>> = parseCheckRequest(LineAt(payload, e)).request
         ELSE /\ codec.requests = <<>>
              /\ \E e \in bad :
                   /\ \A f \in bad : e[1] <= f[1]
                   /\ codec.err = InvalidCheckRequest(LineAt(payload, e))

\* C25 witness: of "#@a", a blank line and "b", the second non-blank line is
\* in error and nothing was returned.
C25_Witness ==
  /\ Extracted
  /\ codec.payload = <<"#", "@", "a", "\n", "\n", "b">>
  /\ codec.requests = <<>>
  /\ codec.err = InvalidCheckRequest(<<"b">>)

----------------------------------------------------------------------------
(* The cache keys, byte by byte.  CacheKey above keeps the encoded text     *)
(* apart by a marker; here the base32 text is computed.                    *)

MaxUid == 2          \* longest uid and principal a message brings

\* the byte values of the characters in use
Ord ==
  [c \in {"#", ":", "@", "a", "c", "d", "e", "i", "j", "o", "p", "r", "s", "t", "u", "w"} |->
     CASE c = "#" -> 35 [] c = ":" -> 58 [] c = "@" -> 64 [] c = "a" -> 97
       [] c = "c" -> 99 [] c = "d" -> 100 [] c = "e" -> 101 [] c = "i" -> 105
       [] c = "j" -> 106 [] c = "o" -> 111 [] c = "p" -> 112 [] c = "r" -> 114
       [] c = "s" -> 115 [] c = "t" -> 116 [] c = "u" -> 117 [] c = "w" -> 119]

\* the alphabet of base32.StdEncoding
EncodeStd ==
  <<"A", "B", "C", "D", "E", "F", "G", "H", "I", "J", "K", "L", "M", "N", "O", "P",
    "Q", "R", "S", "T", "U", "V", "W", "X", "Y", "Z", "2", "3", "4", "5", "6", "7">>

Pow2(n) == IF n = 0 THEN 1 ELSE IF n = 1 THEN 2 ELSE IF n = 2 THEN 4 ELSE IF n = 3 THEN 8
           ELSE IF n = 4 THEN 16 ELSE IF n = 5 THEN 32 ELSE IF n = 6 THEN 64 ELSE 128

\* bit k (from 1, most significant first) of the bytes src; 0 past the end
BitOf(src, k) ==
  IF k > 8 * Len(src) THEN 0
  ELSE (Ord[src[((k - 1) \div 8) + 1]] \div Pow2(7 - ((k - 1) % 8))) % 2

\* Encoding.EncodeToString without padding: one character for every five
\* bits, the last group filled with zero bits
EncodeBase32(src) ==
  LET n == (8 * Len(src) + 4) \div 5
  IN [g \in 1..n |->
        EncodeStd[1 + 16 * BitOf(src, 5 * g - 4) + 8 * BitOf(src, 5 * g - 3)
                    + 4 * BitOf(src, 5 * g - 2) + 2 * BitOf(src, 5 * g - 1)
                    + BitOf(src, 5 * g)]]

\* the value of each character of the alphabet
DecodeMap ==
  [c \in {EncodeStd[d] : d \in 1..32} |-> (CHOOSE d \in 1..32 : EncodeStd[d] = c) - 1]

\* the character of each byte value in use
Chr ==
  [v \in {Ord[c] : c \in DOMAIN Ord} |-> CHOOSE c \in DOMAIN Ord : Ord[c] = v]

\* bit k of the values q read as groups of five bits
QuintetBit(q, k) ==
  (q[((k - 1) \div 5) + 1] \div Pow2(4 - ((k - 1) % 5))) % 2

\* Encoding.DecodeString without padding: the whole bytes of the bit string;
\* no result (an error) on a character outside the alphabet or on a byte that
\* is no character in use
DecodeBase32(s) ==
  IF \E i \in 1..Len(s) : s[i] \notin DOMAIN DecodeMap THEN <<>>
  ELSE LET q == [i \in 1..Len(s) |-> DecodeMap[s[i]]]
           n == (5 * Len(s)) \div 8
           bytes == [b \in 1..n |->
                       128 * QuintetBit(q, 8 * b - 7) + 64 * QuintetBit(q, 8 * b - 6)
                       + 32 * QuintetBit(q, 8 * b - 5) + 16 * QuintetBit(q, 8 * b - 4)
                       + 8 * QuintetBit(q, 8 * b - 3) + 4 * QuintetBit(q, 8 * b - 2)
                       + 2 * QuintetBit(q, 8 * b - 1) + QuintetBit(q, 8 * b)]
       IN IF \E b \in 1..n : bytes[b] \notin DOMAIN Chr THEN <<>>
          ELSE <<[b \in 1..n |-> Chr[bytes[b]]]>>

\* tuple.Object + "#" + tuple.Relation + "@" + tuple.User
RelationKeyBytes(t) == t.object \o <<"#">> \o t.relation \o <<"@">> \o t.user

RelPrefix == <<"r", "e", "l", ".">>

\* "rel." + cacheKeyEncoder.EncodeToString([]byte(relationKey))
CacheKeyBytes(t) == RelPrefix \o EncodeBase32(RelationKeyBytes(t))

\* the reserved key "inv"
InvKeyBytes == <<"i", "n", "v">>

\* strings.TrimPrefix(cacheKey, "rel.")
TrimPrefix(s, prefix) ==
  IF Len(s) >= Len(prefix) /\ SubSeq(s, 1, Len(prefix)) = prefix
    THEN SubSeq(s, Len(prefix) + 1, Len(s))
    ELSE s

ObjectTypeUser == <<"u", "s", "e", "r", ":">>
ObjectTypeProject == <<"p", "r", "o", "j", "e", "c", "t", ":">>
RelationWriter == <<"w", "r", "i", "t", "e", "r">>
RelationAuditor == <<"a", "u", "d", "i", "t", "o", "r">>

\* the bytes a uid or a principal of a message is made of
UidChars == {"a", "#", "@"}

\* the uids and principals a message can bring: nothing checks their bytes
UidWords == SeqUpTo(UidChars, MaxUid) \ {<<>>}

\* the tuple a project handler asks to write for a principal
SeedTuple(uid, relation, principal) ==
  ClientCheckRequest(ObjectTypeUser \o principal, relation, ObjectTypeProject \o uid)

SeedTuples ==
  {SeedTuple(uid, relation, principal) :
     uid \in UidWords, relation \in {RelationWriter, RelationAuditor}, principal \in UidWords}

\* the seed goroutine's key of a written tuple and the lookup's key of a check
\* line, side by side
ReadyKeys(tuple, line) ==
  [pc |-> "keys", tuple |-> tuple, line |-> line, seedKey |-> <<>>,
   request |-> <<>>, lookupKey |-> <<>>]

\* the writes loop computes the cache key it seeds
SeedKey ==
  /\ codec.pc = "keys"
  /\ codec.seedKey = <<>>
  /\ codec' = [codec EXCEPT !.seedKey = CacheKeyBytes(codec.tuple)]
  /\ UNCHANGED <<reg, handler, useCache, store, storeVer, retVer, cache, now, sync, seeds, chk,
                 checkCalls, cacheHits, cacheStaleHits, cacheMisses>>

\* a check line is parsed and the lookup loop computes its cache key
LookupKey ==
  /\ codec.pc = "keys"
  /\ codec.lookupKey = <<>>
  /\ LET extracted == ExtractCheckRequests(codec.line)
     IN /\ extracted.err = NoError
        /\ Len(extracted.requests) = 1
        /\ codec' = [codec EXCEPT !.request = extracted.requests,
                                  !.lookupKey = CacheKeyBytes(extracted.requests[1])]
  /\ UNCHANGED <<reg, handler, useCache, store, storeVer, retVer, cache, now, sync, seeds, chk,
                 checkCalls, cacheHits, cacheStaleHits, cacheMisses>>

\* every written tuple against every check line that names a written tuple of
\* the same relation and user
InitKeys ==
  /\ codec \in {ReadyKeys(tuple, RelationKeyBytes([tuple EXCEPT !.object = ObjectTypeProject \o uid])) :
                   tuple \in SeedTuples, uid \in UidWords}
  /\ ServiceAtRest

NextKeys ==
  \/ SeedKey
  \/ LookupKey

SpecKeys == InitKeys /\ [][NextKeys]_vars

BothKeys == codec.pc = "keys" /\ codec.seedKey # <<>> /\ codec.lookupKey # <<>>

\* the relation key comes back from a cache key, and no cache key is "inv"
KeyRecoverable ==
  codec.pc = "keys" =>
    /\ codec.seedKey # <<>> =>
         /\ DecodeBase32(TrimPrefix(codec.seedKey, RelPrefix)) = <<RelationKeyBytes(codec.tuple)>>
         /\ codec.seedKey # InvKeyBytes
    /\ codec.lookupKey # <<>> =>
         /\ DecodeBase32(TrimPrefix(codec.lookupKey, RelPrefix)) = <<codec.line>>
         /\ codec.lookupKey # InvKeyBytes

\* C26: two distinct (object, relation, user) triples, one seeded and one
\* looked up, have distinct cache keys; the relation key is recoverable from
\* the cache key, and no cache key is the reserved key "inv".
C26_KeysCollisionFree ==
  /\ KeyRecoverable
  /\ BothKeys =>
       (codec.tuple # codec.request[1] => codec.seedKey # codec.lookupKey)

----------------------------------------------------------------------------
(* The subscription handlers.                                              *)

MaxLines == 2        \* most lines of an access-check payload
MaxDeleteLen == 2    \* longest delete_all_access payload

\* string(b): the text of the bytes b
RECURSIVE String(_)
String(b) == IF Len(b) = 0 THEN "" ELSE b[1] \o String(Tail(b))

RelationViewer == <<"v", "i", "e", "w", "e", "r">>

\* the line object#relation@user of a check
WireLine(object, relation, user) == object \o <<"#">> \o relation \o <<"@">> \o user

\* what a line of an access-check payload can be: two well-formed checks, a
\* blank line and a line without separators
CheckLines ==
  {WireLine(ObjectTypeProject \o <<"p", "1">>, RelationViewer, ObjectTypeUser \o <<"a">>),
   WireLine(ObjectTypeProject \o <<"p", "1">>, RelationViewer, <<"t", "e", "a", "m", ":", "t">>),
   <<>>,
   <<"x">>}

\* lines joined by newlines
RECURSIVE JoinLines(_)
JoinLines(lines) ==
  IF Len(lines) = 0 THEN <<>>
  ELSE IF Len(lines) = 1 THEN lines[1]
  ELSE lines[1] \o <<"\n">> \o JoinLines(Tail(lines))

AccessPayloads == {JoinLines(lines) : lines \in SeqUpTo(CheckLines, MaxLines)}

\* the bytes of a delete_all_access payload
DeleteChars == {"p", "1", "{", "[", "\""}

DeletePayloads == SeqUpTo(DeleteChars, MaxDeleteLen)

\* the object type prefixes of the delete_all_access subscriptions
ObjectTypePrefixes == {"project:", "meeting:", "committee:", "groupsio_service:"}

\* an update_access payload that is no JSON
BadJSON ==
  [valid |-> FALSE, uid |-> "", public |-> FALSE, writers |-> <<>>,
   project_uid |-> "", object_type |-> ""]

\* an update_access payload: the JSON text of a projectStub
ProjectJSON(uid, public, writers) ==
  [valid |-> TRUE, uid |-> uid, public |-> public, writers |-> writers,
   project_uid |-> "", object_type |-> ""]

ProjectPayloads ==
  {BadJSON} \cup {ProjectJSON(uid, public, writers) :
                    uid \in {"", "p1"}, public \in BOOLEAN, writers \in {<<>>, <<"a">>}}

\* the payload of a meeting update: {"uid":..,"public":..,"project_uid":..}
MeetingJSON(uid, public, project_uid) ==
  [valid |-> TRUE, uid |-> uid, public |-> public, writers |-> <<>>,
   project_uid |-> project_uid, object_type |-> ""]

MeetingPayloads ==
  {BadJSON} \cup {MeetingJSON(uid, public, project_uid) :
                    uid \in {"", "m1"}, public \in BOOLEAN, project_uid \in {"", "p1"}}

\* the payload of a committee or groups.io service update:
\* {"uid":..,"object_type":..,"public":..,"relations":{"writer":[..]}}
StubJSON(uid, object_type, public, writers) ==
  [valid |-> TRUE, uid |-> uid, public |-> public, writers |-> writers,
   project_uid |-> "", object_type |-> object_type]

StubPayloads(object_type) ==
  {BadJSON} \cup {StubJSON(uid, object_type, public, <<>>) :
                    uid \in {"", "c1"}, public \in BOOLEAN}

\* json.Unmarshal(message.Data(), stub)
Unmarshal(json) ==
  IF json.valid
    THEN [err |-> "", project |-> [UID |-> json.uid, Public |-> json.public,
                                    Writers |-> json.writers,
                                    ProjectUID |-> json.project_uid,
                                    ObjectType |-> json.object_type]]
    ELSE [err |-> "invalid character", project |-> [UID |-> "", Public |-> FALSE,
                                                     Writers |-> <<>>, ProjectUID |-> "",
                                                     ObjectType |-> ""]]

\* the error of a Respond that failed
ErrRespond == "nats: respond failed"

\* a message handed to its handler: data are the bytes of the payload, json
\* is what an update_access payload holds (its bytes are not spelled out);
\* gstore0 and gcache0 are ghost fields: the store and the cache at that moment
Delivered(subject, prefix, data, json, reply, store0, cache0) ==
  [pc |-> "delivered", subject |-> subject, prefix |-> prefix, data |-> data,
   json |-> json, reply |-> reply, responds |-> <<>>, ret |-> "", object |-> "", tuples |-> <<>>,
   gstore0 |-> store0, gcache0 |-> cache0]

\* a handler that returns err without looking at the error of Respond
ReplyAndReturn_IgnoresSendError(h, data, err) ==
  IF h.reply = ""
    THEN {[h EXCEPT !.pc = "returned", !.ret = err]}
    ELSE {[h EXCEPT !.pc = "returned", !.ret = err,
                    !.responds = Append(@, [data |-> data, ok |-> ok])] : ok \in BOOLEAN}

\* a handler that replies without looking at the reply inbox
ReplyAndReturn_NoInboxTest(h, data, err) ==
  {[h EXCEPT !.pc = "returned", !.ret = IF ok THEN err ELSE ErrRespond,
             !.responds = Append(@, [data |-> data, ok |-> ok])] : ok \in BOOLEAN}

\* a handler that never replies
ReplyAndReturn_NoReply(h, data, err) ==
  {[h EXCEPT !.pc = "returned", !.ret = err]}

\* if message.Reply() != "" { if errRespond := message.Respond(data);
\* errRespond != nil { return errRespond } }; return err
ReplyAndReturn(h, data, err) ==
  IF h.reply = ""
    THEN {[h EXCEPT !.pc = "returned", !.ret = err]}
    ELSE {[h EXCEPT !.pc = "returned", !.ret = IF ok THEN err ELSE ErrRespond,
                    !.responds = Append(@, [data |-> data, ok |-> ok])] : ok \in BOOLEAN}

\* return err, nothing sent
ReturnError(h, err) == [h EXCEPT !.pc = "returned", !.ret = err]

\* accessCheckHandler up to the call of CheckRelationships
AccessExtract ==
  /\ handler.pc = "delivered"
  /\ handler.subject = "access_check"
  /\ LET extracted == ExtractCheckRequests(handler.data)
         checkRequests ==
           [i \in 1..Len(extracted.requests) |->
              TupleKey(String(extracted.requests[i].user),
                       String(extracted.requests[i].relation),
                       String(extracted.requests[i].object))]
     IN IF extracted.err # NoError
          THEN handler' \in ReplyAndReturn(handler, <<"failed to extract check requests">>,
                                           extracted.err.text \o String(extracted.err.line))
        ELSE IF Len(checkRequests) = 0
          THEN handler' \in ReplyAndReturn(handler, <<"no check requests found">>, "")
        ELSE handler' = [handler EXCEPT !.pc = "check", !.tuples = checkRequests]
  /\ UNCHANGED <<reg, codec, useCache, store, storeVer, retVer, cache, now, sync, seeds, chk,
                 checkCalls, cacheHits, cacheStaleHits, cacheMisses>>

\* accessCheckHandler calls CheckRelationships
AccessCall ==
  /\ handler.pc = "check"
  /\ CheckStart("c1", handler.tuples)

\* accessCheckHandler after CheckRelationships has returned
AccessReply ==
  /\ handler.pc = "check"
  /\ chk["c1"].pc = "done"
  /\ handler' \in IF chk["c1"].err # ""
                    THEN ReplyAndReturn(handler, <<"failed to check relationship">>,
                                        chk["c1"].err)
                    ELSE ReplyAndReturn(handler, chk["c1"].output, "")
  /\ UNCHANGED <<reg, codec, useCache, store, storeVer, retVer, cache, now, sync, seeds, chk,
                 checkCalls, cacheHits, cacheStaleHits, cacheMisses>>

\* the delete handler without the two tests of the payload
DeleteAllCheck_NoGuard ==
  /\ handler.pc = "delivered"
  /\ handler.subject = "delete_all_access"
  /\ handler' = [handler EXCEPT !.pc = "sync",
                                 !.object = handler.prefix \o String(handler.data),
                                 !.tuples = <<>>]
  /\ UNCHANGED <<reg, codec, useCache, store, storeVer, retVer, cache, now, sync, seeds, chk,
                 checkCalls, cacheHits, cacheStaleHits, cacheMisses>>

\* processDeleteAllAccessMessage up to the call of SyncObjectTuples
DeleteAllCheck ==
  /\ handler.pc = "delivered"
  /\ handler.subject = "delete_all_access"
  /\ LET objectUID == handler.data
     IN handler' =
          IF Len(objectUID) = 0
            THEN ReturnError(handler, "empty deletion payload")
          ELSE IF objectUID[1] \in {"{", "[", "\""}
            THEN ReturnError(handler, "unsupported deletion payload")
          ELSE [handler EXCEPT !.pc = "sync",
                               !.object = handler.prefix \o String(objectUID),
                               !.tuples = <<>>]
  /\ UNCHANGED <<reg, codec, useCache, store, storeVer, retVer, cache, now, sync, seeds, chk,
                 checkCalls, cacheHits, cacheStaleHits, cacheMisses>>

\* projectUpdateAccessHandler up to the call of SyncObjectTuples
UpdateParse ==
  /\ handler.pc = "delivered"
  /\ handler.subject = "update_access"
  /\ LET parsed == Unmarshal(handler.json)
         project == parsed.project
         missing ==
           CASE handler.prefix = "project:" ->
                  IF project.UID = "" THEN "project ID not found" ELSE ""
             [] handler.prefix = "meeting:" ->
                  IF project.ProjectUID = "" THEN "meeting project ID not found" ELSE ""
             [] handler.prefix = "committee:" ->
                  IF project.UID = "" THEN "committee ID not found" ELSE ""
             [] OTHER ->
                  IF project.UID = "" THEN "groups.io service ID not found" ELSE ""
         object ==
           IF handler.prefix \in {"project:", "meeting:"}
             THEN handler.prefix \o project.UID
             ELSE project.ObjectType \o ":" \o project.UID
         public == IF project.Public THEN <<TupleKey("user:*", "viewer", object)>> ELSE <<>>
         parent ==
           IF handler.prefix = "meeting:" /\ project.ProjectUID # ""
             THEN <<TupleKey("project:" \o project.ProjectUID, "project", object)>>
             ELSE <<>>
         writers == [i \in 1..Len(project.Writers) |->
                       TupleKey("user:" \o project.Writers[i], "writer", object)]
     IN handler' =
          IF parsed.err # "" THEN ReturnError(handler, parsed.err)
          ELSE IF missing # "" THEN ReturnError(handler, missing)
          ELSE [handler EXCEPT !.pc = "sync", !.object = object,
                               !.tuples = public \o parent \o writers]
  /\ UNCHANGED <<reg, codec, useCache, store, storeVer, retVer, cache, now, sync, seeds, chk,
                 checkCalls, cacheHits, cacheStaleHits, cacheMisses>>

\* a handler that hands the stored tuples of the object over as desired state
SyncCall_KeepsStored ==
  /\ handler.pc = "sync"
  /\ \E relations \in Orders(StoredFor(handler.object)) :
       SyncStart("s1", handler.object, handler.tuples \o relations)

\* a mutating handler calls SyncObjectTuples
SyncCall ==
  /\ handler.pc = "sync"
  /\ SyncStart("s1", handler.object, handler.tuples)

\* a mutating handler after SyncObjectTuples has returned
SyncReply ==
  /\ handler.pc = "sync"
  /\ sync["s1"].pc = "done"
  /\ handler' \in IF sync["s1"].err # ""
                    THEN {ReturnError(handler, sync["s1"].err)}
                    ELSE ReplyAndReturn(handler, <<"OK">>, "")
  /\ UNCHANGED <<reg, codec, useCache, store, storeVer, retVer, cache, now, sync, seeds, chk,
                 checkCalls, cacheHits, cacheStaleHits, cacheMisses>>

\* the messages the subscriptions can deliver, with and without reply inbox
Messages(store0, cache0) ==
  {Delivered("access_check", "", data, BadJSON, reply, store0, cache0) :
     data \in AccessPayloads, reply \in {"", "_INBOX.1"}}
  \cup {Delivered("delete_all_access", prefix, data, BadJSON, reply, store0, cache0) :
          prefix \in ObjectTypePrefixes, data \in DeletePayloads, reply \in {"", "_INBOX.1"}}
  \cup {Delivered("update_access", "project:", <<>>, json, reply, store0, cache0) :
          json \in ProjectPayloads, reply \in {"", "_INBOX.1"}}
  \cup {Delivered("update_access", "meeting:", <<>>, json, reply, store0, cache0) :
          json \in MeetingPayloads, reply \in {"", "_INBOX.1"}}
  \cup {Delivered("update_access", "committee:", <<>>, json, reply, store0, cache0) :
          json \in StubPayloads("committee"), reply \in {"", "_INBOX.1"}}
  \cup {Delivered("update_access", "groupsio_service:", <<>>, json, reply, store0, cache0) :
          json \in StubPayloads("groupsio_service"), reply \in {"", "_INBOX.1"}}

\* one message delivered to its handler, on any stored set
InitHandler ==
  /\ codec = IdleCodec
  /\ useCache = TRUE
  /\ store \in SUBSET StoreTuples
  /\ storeVer = 0
  /\ retVer = 0
  /\ cache = EmptyMap
  /\ now = 1
  /\ sync = [p \in SyncProcs |-> IdleSync]
  /\ seeds = {}
  /\ chk = [c \in CheckProcs |-> IdleCheck]
  /\ checkCalls = 0
  /\ cacheHits = 0
  /\ cacheStaleHits = 0
  /\ cacheMisses = 0
  /\ handler \in Messages(store, cache)
  /\ reg = [r \in RegProcs |-> IdleReg]

NextHandler ==
  \/ AccessExtract
  \/ AccessCall
  \/ AccessReply
  \/ DeleteAllCheck
  \/ UpdateParse
  \/ SyncCall
  \/ SyncReply
  \/ CheckGetInv("c1")
  \/ CheckLookup("c1")
  \/ CheckDispatch("c1")
  \/ CheckBatch("c1")
  \/ CheckAppend("c1")
  \/ CheckFinish("c1")
  \/ SyncReadPage("s1")
  \/ SyncDiff("s1")
  \/ SyncWrite("s1")
  \/ SyncPutInv("s1")
  \/ \E s \in seeds : SeedRun(s)

SpecHandler == InitHandler /\ [][NextHandler]_vars

HandlerReturned == handler.pc = "returned"

\* the message asks for a reply
WantsReply == handler.reply # ""

\* some non-blank line of the payload does not parse
Malformed(payload) ==
  \E e \in NonBlank(payload) : parseCheckRequest(LineAt(payload, e)).err # NoError

\* C27: for an access-check message with a reply inbox the handler sends one
\* reply: "failed to extract check requests" when a line is malformed,
\* returning the parse error; "no check requests found" when the payload has
\* no non-blank line, returning nil; "failed to check relationship" when
\* CheckRelationships fails, returning its error; else the batch result,
\* returning nil.  (The value returned when the reply cannot be sent is C29.)
C27_AccessCheckReplies ==
  (HandlerReturned /\ handler.subject = "access_check" /\ WantsReply) =>
    /\ Len(handler.responds) = 1
    /\ LET sent == handler.responds[1]
       IN IF Malformed(handler.data)
            THEN /\ sent.data = <<"failed to extract check requests">>
                 /\ sent.ok =>
                      \E e \in NonBlank(handler.data) :
                        handler.ret = "invalid check request: "
                                        \o String(LineAt(handler.data, e))
                 /\ chk["c1"] = IdleCheck
          ELSE IF NonBlank(handler.data) = {}
            THEN /\ sent.data = <<"no check requests found">>
                 /\ sent.ok => handler.ret = ""
                 /\ chk["c1"] = IdleCheck
          ELSE IF chk["c1"].err # ""
            THEN /\ sent.data = <<"failed to check relationship">>
                 /\ sent.ok => handler.ret = chk["c1"].err
          ELSE /\ chk["c1"].pc = "done"
               /\ sent.data = chk["c1"].output
               /\ sent.ok => handler.ret = ""

\* C27 witness: a payload of two checks was answered with the two lines of
\* the batch result.
C27_Witness ==
  /\ HandlerReturned /\ handler.subject = "access_check" /\ WantsReply
  /\ Len(handler.tuples) = 2
  /\ chk["c1"].err = "" /\ chk["c1"].gbatches = 1
  /\ handler.responds = <<[data |-> chk["c1"].output, ok |-> TRUE]>>
  /\ Len(chk["c1"].output) = 3
  /\ handler.ret = ""

MutatingSubjects == {"update_access", "delete_all_access"}

\* the handler gave up: before SyncObjectTuples, or on its error
MutationFailed == sync["s1"].pc = "idle" \/ sync["s1"].err # ""

\* C28: a mutating handler whose message has a reply inbox sends a reply
\* whether it succeeds or fails: "OK" on success, an error text on failure.
C28_MutatingAlwaysReplies ==
  (HandlerReturned /\ handler.subject \in MutatingSubjects /\ WantsReply) =>
    /\ Len(handler.responds) = 1
    /\ (handler.responds[1].data = <<"OK">>) <=> ~MutationFailed

RefusedPayload(data) == Len(data) = 0 \/ data[1] \in {"{", "[", "\""}

\* C30: a delete_all_access message whose payload is empty or starts with
\* '{', '[' or '"' is rejected with "empty deletion payload" or "unsupported
\* deletion payload" and no store Read, store Write or cache operation is
\* made for it, whatever the resource type.
C30_BadDeletePayloadRejected ==
  (handler.pc # "idle" /\ handler.subject = "delete_all_access"
     /\ RefusedPayload(handler.data)) =>
    /\ handler.pc \in {"delivered", "returned"}
    /\ HandlerReturned =>
         handler.ret = IF Len(handler.data) = 0 THEN "empty deletion payload"
                       ELSE "unsupported deletion payload"
    /\ sync["s1"] = IdleSync
    /\ seeds = {}
    /\ chk["c1"] = IdleCheck
    /\ store = handler.gstore0
    /\ cache = handler.gcache0

\* C30 witness: a meeting deletion with payload {p on a store that holds
\* tuples was rejected.
C30_Witness ==
  /\ HandlerReturned /\ handler.subject = "delete_all_access"
  /\ handler.prefix = "meeting:"
  /\ handler.data = <<"{", "p">>
  /\ handler.ret = "unsupported deletion payload"
  /\ store # {}

\* a delete_all_access message the handler lets through
ValidDelete ==
  /\ handler.pc # "idle"
  /\ handler.subject = "delete_all_access"
  /\ ~RefusedPayload(handler.data)

LacksUid ==
  /\ handler.pc # "idle"
  /\ handler.subject = "update_access"
  /\ handler.json.valid
  /\ handler.json.uid = ""

\* C32: an update_access message whose payload lacks the uid of the object
\* yields an error and makes no Read and no Write of the store and no cache
\* operation, whatever the resource type.
C32_MissingUidRejected ==
  LacksUid =>
    /\ sync["s1"].pc = "idle"
    /\ seeds = {}
    /\ store = handler.gstore0
    /\ cache = handler.gcache0
    /\ HandlerReturned => handler.ret # ""

\* C32 for the three resource types whose handler tests the uid.
C32_MissingUidRejectedButMeeting ==
  (LacksUid /\ handler.prefix # "meeting:") =>
    /\ sync["s1"].pc = "idle"
    /\ seeds = {}
    /\ store = handler.gstore0
    /\ cache = handler.gcache0
    /\ HandlerReturned => handler.ret # ""

\* a meeting update without uid but with project_uid returned nil after
\* a Write on the object "meeting:"
C32_MeetingSynced ==
  /\ LacksUid /\ handler.prefix = "meeting:"
  /\ HandlerReturned /\ handler.ret = ""
  /\ Did("s1", "write")
  /\ TupleKey("project:p1", "project", "meeting:") \in store

-----------------------------------------------------------------------------
(* Meeting registrants: putRegistrant and removeRegistrant.                *)

Meeting == "meeting:m1"
RelationParticipant == "participant"
RelationHost == "host"
RelationOrganizer == "organizer"

\* the tuples the store can hold for the meeting: the registrant relations of
\* X, X as organizer, and another registrant
MeetingTuples ==
  {TupleKey("user:x", RelationParticipant, Meeting), TupleKey("user:x", RelationHost, Meeting),
   TupleKey("user:x", RelationOrganizer, Meeting), TupleKey("user:y", RelationParticipant, Meeting)}

\* handleRegistrantOperation: the switch on the operation
RegStart(r, op, userPrincipal, meetingObject, isHost) ==
  /\ reg[r].pc = "idle"
  /\ reg' = [reg EXCEPT ![r] =
               [IdleReg EXCEPT !.pc = IF op = "put" THEN "read" ELSE "delete",
                               !.op = op, !.userPrincipal = userPrincipal,
                               !.meetingObject = meetingObject, !.isHost = isHost,
                               !.gstore0 = store,
                               !.gprev = {q \in RegProcs : reg[q].pc = "done"}]]
  /\ UNCHANGED <<codec, handler, useCache, store, storeVer, retVer, cache, now, sync, seeds,
                 chk, checkCalls, cacheHits, cacheStaleHits, cacheMisses>>

\* a ReadObjectTuples that stops after the first page
RegReadPage_FirstPageOnly(r) ==
  /\ reg[r].pc = "read"
  /\ \/ LET resp == StoreRead(reg[r].meetingObject, reg[r].token)
        IN reg' = [reg EXCEPT ![r].existingTuples = @ \o resp.tuples,
                              ![r].token = resp.token,
                              ![r].pc = "write"]
     \/ reg' = [reg EXCEPT ![r].pc = "done", ![r].err = "read", ![r].existingTuples = <<>>]
  /\ UNCHANGED <<codec, handler, useCache, store, storeVer, retVer, cache, now, sync, seeds,
                 chk, checkCalls, cacheHits, cacheStaleHits, cacheMisses>>

\* ReadObjectTuples called by putRegistrant: one client.Read; the loop ends on
\* the empty token, and an error drops the pages read so far
RegReadPage(r) ==
  /\ reg[r].pc = "read"
  /\ \/ LET resp == StoreRead(reg[r].meetingObject, reg[r].token)
        IN reg' = [reg EXCEPT ![r].existingTuples = @ \o resp.tuples,
                              ![r].token = resp.token,
                              ![r].pc = IF resp.token = 0 THEN "write" ELSE "read"]
     \/ reg' = [reg EXCEPT ![r].pc = "done", ![r].err = "read", ![r].existingTuples = <<>>]
  /\ UNCHANGED <<codec, handler, useCache, store, storeVer, retVer, cache, now, sync, seeds,
                 chk, checkCalls, cacheHits, cacheStaleHits, cacheMisses>>

\* the relation the host flag asks for
DesiredRelation(isHost) == IF isHost THEN RelationHost ELSE RelationParticipant

\* a registrant relation of userPrincipal
IsRegistrantTuple(t, userPrincipal) ==
  t.user = userPrincipal /\ t.relation \in {RelationParticipant, RelationHost}

\* a put that writes the desired relation and deletes nothing
PutPlan_KeepsOther(existingTuples, userPrincipal, meetingObject, isHost) ==
  LET desiredRelation == DesiredRelation(isHost)
      hasDesiredRelation ==
        \E i \in 1..Len(existingTuples) :
          IsRegistrantTuple(existingTuples[i], userPrincipal)
            /\ existingTuples[i].relation = desiredRelation
  IN [tuplesToWrite |-> IF hasDesiredRelation THEN <<>>
                        ELSE <<TupleKey(userPrincipal, desiredRelation, meetingObject)>>,
      tuplesToDelete |-> <<>>]

\* a put that writes the desired relation whether or not it is held
PutPlan_AlwaysWrites(existingTuples, userPrincipal, meetingObject, isHost) ==
  LET desiredRelation == DesiredRelation(isHost)
      Other(t) == IsRegistrantTuple(t, userPrincipal) /\ t.relation # desiredRelation
  IN [tuplesToWrite |-> <<TupleKey(userPrincipal, desiredRelation, meetingObject)>>,
      tuplesToDelete |-> SelectSeq(existingTuples, Other)]

\* a put that deletes every other tuple of the user on the meeting
PutPlan_DeletesAllOfUser(existingTuples, userPrincipal, meetingObject, isHost) ==
  LET desiredRelation == DesiredRelation(isHost)
      hasDesiredRelation ==
        \E i \in 1..Len(existingTuples) :
          IsRegistrantTuple(existingTuples[i], userPrincipal)
            /\ existingTuples[i].relation = desiredRelation
      Other(t) == t.user = userPrincipal /\ t.relation # desiredRelation
  IN [tuplesToWrite |-> IF hasDesiredRelation THEN <<>>
                        ELSE <<TupleKey(userPrincipal, desiredRelation, meetingObject)>>,
      tuplesToDelete |-> SelectSeq(existingTuples, Other)]

\* putRegistrant between the Read and the Write: the loop over existingTuples
\* and the tuple to write
PutPlan(existingTuples, userPrincipal, meetingObject, isHost) ==
  LET desiredRelation == DesiredRelation(isHost)
      hasDesiredRelation ==
        \E i \in 1..Len(existingTuples) :
          IsRegistrantTuple(existingTuples[i], userPrincipal)
            /\ existingTuples[i].relation = desiredRelation
      Other(t) == IsRegistrantTuple(t, userPrincipal) /\ t.relation # desiredRelation
  IN [tuplesToWrite |-> IF hasDesiredRelation THEN <<>>
                        ELSE <<TupleKey(userPrincipal, desiredRelation, meetingObject)>>,
      tuplesToDelete |-> SelectSeq(existingTuples, Other)]

\* WriteAndDeleteTuples(tuplesToWrite, tuplesToDelete): one client.Write
RegWrite(r, writes, deletes) ==
  \/ /\ storeVer < MaxWrites
     /\ store' = StoreWrite(writes, deletes)
     /\ storeVer' = storeVer + 1
     /\ reg' = [reg EXCEPT ![r].pc = "inv", ![r].gwrites = writes, ![r].gdeletes = deletes,
                           ![r].gcalls = @ + 1]
  \/ /\ reg' = [reg EXCEPT ![r].pc = "done", ![r].err = "write", ![r].gwrites = writes,
                           ![r].gdeletes = deletes, ![r].gcalls = @ + 1]
     /\ UNCHANGED <<store, storeVer>>

\* putRegistrant after the Read: nothing to do, or one WriteAndDeleteTuples
RegPutWrite(r) ==
  /\ reg[r].pc = "write"
  /\ LET plan == PutPlan(reg[r].existingTuples, reg[r].userPrincipal,
                         reg[r].meetingObject, reg[r].isHost)
     IN IF Len(plan.tuplesToWrite) > 0 \/ Len(plan.tuplesToDelete) > 0
          THEN RegWrite(r, plan.tuplesToWrite, plan.tuplesToDelete)
          ELSE /\ reg' = [reg EXCEPT ![r].pc = "done"]
               /\ UNCHANGED <<store, storeVer>>
  /\ UNCHANGED <<codec, handler, useCache, retVer, cache, now, sync, seeds,
                 chk, checkCalls, cacheHits, cacheStaleHits, cacheMisses>>

\* a remove that deletes both registrant relations of the user
RegDelete_BothRelations(r) ==
  /\ reg[r].pc = "delete"
  /\ RegWrite(r, <<>>,
              <<TupleKey(reg[r].userPrincipal, RelationParticipant, reg[r].meetingObject),
                TupleKey(reg[r].userPrincipal, RelationHost, reg[r].meetingObject)>>)
  /\ UNCHANGED <<codec, handler, useCache, retVer, cache, now, sync, seeds,
                 chk, checkCalls, cacheHits, cacheStaleHits, cacheMisses>>

\* removeRegistrant: DeleteTuple(userPrincipal, relation, meetingObject) with
\* the relation the host flag names
RegDelete(r) ==
  /\ reg[r].pc = "delete"
  /\ RegWrite(r, <<>>, <<TupleKey(reg[r].userPrincipal, DesiredRelation(reg[r].isHost),
                                  reg[r].meetingObject)>>)
  /\ UNCHANGED <<codec, handler, useCache, retVer, cache, now, sync, seeds,
                 chk, checkCalls, cacheHits, cacheStaleHits, cacheMisses>>

\* the Put of the inv key that follows the Write
RegPutInv(r) ==
  /\ reg[r].pc = "inv"
  /\ \/ /\ cache' = CachePut(cache, InvKey, "1", "inv", storeVer)
        /\ reg' = [reg EXCEPT ![r].pc = "done"]
     \/ /\ \E err \in {"", "inv"} : reg' = [reg EXCEPT ![r].pc = "done", ![r].err = err]
        /\ UNCHANGED cache
  /\ UNCHANGED <<codec, handler, useCache, store, storeVer, retVer, now, sync, seeds,
                 chk, checkCalls, cacheHits, cacheStaleHits, cacheMisses>>

\* two registrant messages for X on the meeting, on any stored set
InitRegistrant == InitWith(SUBSET MeetingTuples, {EmptyMap}, 1)

NextRegistrant ==
  \/ \E r \in RegProcs, op \in {"put", "remove"}, isHost \in BOOLEAN :
       RegStart(r, op, "user:x", Meeting, isHost)
  \/ \E r \in RegProcs : RegReadPage(r)
  \/ \E r \in RegProcs : RegPutWrite(r)
  \/ \E r \in RegProcs : RegDelete(r)
  \/ \E r \in RegProcs : RegPutInv(r)

SpecRegistrant == InitRegistrant /\ [][NextRegistrant]_vars

\* the operation r has returned
RegDone(r) == reg[r].pc = "done"

\* the registrant relations userPrincipal holds on the meeting in S
Held(S, userPrincipal) ==
  {t.relation : t \in {u \in S : u.object = Meeting /\ IsRegistrantTuple(u, userPrincipal)}}

\* the relation the host flag does not ask for
OtherRelation(isHost) == IF isHost THEN RelationParticipant ELSE RelationHost

\* the put r has read the tuples of the meeting and is past its decision
PutDecided(r) ==
  /\ reg[r].op = "put"
  /\ reg[r].pc \in {"inv", "done"}
  /\ reg[r].err # "read"

\* the registrant relations of its user the put r found
Found(r) == Held(SeqToSet(reg[r].existingTuples), reg[r].userPrincipal)

\* C33: a put_registrant that finds X holding the other registrant relation
\* makes one Write whose writes are [(X, desired, M)] and whose deletes are
\* [(X, other, M)]; the two changes are applied by that one call.
C33_RoleTransitionOneWrite ==
  \A r \in RegProcs :
    (PutDecided(r) /\ Found(r) = {OtherRelation(reg[r].isHost)}) =>
      /\ reg[r].gcalls = 1
      /\ reg[r].gwrites =
           <<TupleKey(reg[r].userPrincipal, DesiredRelation(reg[r].isHost), reg[r].meetingObject)>>
      /\ reg[r].gdeletes =
           <<TupleKey(reg[r].userPrincipal, OtherRelation(reg[r].isHost), reg[r].meetingObject)>>

\* C33 witness: X was participant, a put with host set returned nil, and X is
\* host and no longer participant; no other operation ran.
C33_Witness ==
  /\ RegDone("r1") /\ reg["r1"].op = "put" /\ reg["r1"].isHost /\ reg["r1"].err = ""
  /\ reg["r2"].pc = "idle"
  /\ Held(reg["r1"].gstore0, "user:x") = {RelationParticipant}
  /\ Held(store, "user:x") = {RelationHost}
  /\ reg["r1"].gcalls = 1

\* the put r was called after the put q, with the same arguments, had returned nil
Repeats(r, q) ==
  /\ r # q
  /\ reg[r].op = "put" /\ reg[q].op = "put"
  /\ q \in reg[r].gprev /\ reg[q].err = ""
  /\ reg[r].userPrincipal = reg[q].userPrincipal
  /\ reg[r].meetingObject = reg[q].meetingObject
  /\ reg[r].isHost = reg[q].isHost

\* C34: a put_registrant that finds X holding the desired relation and no
\* other registrant relation makes no Write and returns nil; so a put applied
\* a second time changes nothing.
C34_PutIdempotent ==
  \A r \in RegProcs :
    /\ (PutDecided(r) /\ Found(r) = {DesiredRelation(reg[r].isHost)}) =>
         /\ reg[r].pc = "done" /\ reg[r].err = ""
         /\ reg[r].gcalls = 0
    /\ \A q \in RegProcs :
         (Repeats(r, q) /\ PutDecided(r)) =>
           /\ reg[r].pc = "done" /\ reg[r].err = ""
           /\ reg[r].gcalls = 0
           /\ store = reg[r].gstore0

\* C34 witness: a put that wrote the host relation, then the same put again,
\* which returned nil without a Write.
C34_Witness ==
  /\ Repeats("r2", "r1") /\ RegDone("r2")
  /\ reg["r1"].gcalls = 1 /\ reg["r1"].isHost
  /\ reg["r2"].gcalls = 0 /\ reg["r2"].err = ""
  /\ Held(store, "user:x") = {RelationHost}

\* the remove r has returned nil and no other operation was called
RemovedAlone(r) ==
  /\ reg[r].op = "remove" /\ RegDone(r) /\ reg[r].err = ""
  /\ \A q \in RegProcs \ {r} : reg[q].pc = "idle"

\* C35: after a successful remove_registrant for X on M, X holds neither
\* participant nor host on M, whatever the host flag of the message.
C35_RemoveClearsRegistrant ==
  \A r \in RegProcs :
    RemovedAlone(r) => Held(store, reg[r].userPrincipal) = {}

\* what the code does: a successful remove_registrant leaves X without the
\* relation its host flag names and with the other one as it was.
C35_RemoveClearsNamedRelation ==
  \A r \in RegProcs :
    RemovedAlone(r) =>
      Held(store, reg[r].userPrincipal) =
        Held(reg[r].gstore0, reg[r].userPrincipal) \ {DesiredRelation(reg[r].isHost)}

\* X held both relations, a remove with host unset returned nil, X is still host
C35_StillHost ==
  /\ RemovedAlone("r1") /\ ~reg["r1"].isHost
  /\ Held(reg["r1"].gstore0, "user:x") = {RelationParticipant, RelationHost}
  /\ Held(store, "user:x") = {RelationHost}

\* the tuples of S that are no registrant relation of userPrincipal
Others(S, userPrincipal) == {t \in S : ~IsRegistrantTuple(t, userPrincipal)}

\* C39: putRegistrant for X on M writes and deletes only tuples of X on M with
\* relation participant or host; the tuples of other users on M and the
\* tuples of X with another relation stay as they were.
C39_PutTouchesOnlyRegistrant ==
  \A r \in RegProcs :
    (reg[r].op = "put") =>
      /\ \A t \in SeqToSet(reg[r].gwrites) \cup SeqToSet(reg[r].gdeletes) :
           IsRegistrantTuple(t, reg[r].userPrincipal) /\ t.object = reg[r].meetingObject
      /\ Others(store, reg[r].userPrincipal) = Others(reg[r].gstore0, reg[r].userPrincipal)

\* C39 witness: a put changed X from participant to host while X was
\* organizer and Y participant; both tuples are still stored.
C39_Witness ==
  /\ RegDone("r1") /\ reg["r1"].op = "put" /\ reg["r1"].err = ""
  /\ reg["r2"].pc = "idle"
  /\ Len(reg["r1"].gwrites) = 1 /\ Len(reg["r1"].gdeletes) = 1
  /\ Others(store, "user:x") =
       {TupleKey("user:x", RelationOrganizer, Meeting),
        TupleKey("user:y", RelationParticipant, Meeting)}

\* both puts, called with opposite host flags, have returned nil
BothPut ==
  /\ \A r \in RegProcs : reg[r].op = "put" /\ RegDone(r) /\ reg[r].err = ""
  /\ reg["r1"].userPrincipal = reg["r2"].userPrincipal
  /\ reg["r1"].meetingObject = reg["r2"].meetingObject
  /\ reg["r1"].isHost # reg["r2"].isHost

\* C40: two put_registrant operations for the same X and M with opposite
\* host flags, interleaved in any way: once both have completed X does not
\* hold both participant and host on M.
C40_NeverBothRelations ==
  BothPut => Held(store, reg["r1"].userPrincipal) # {RelationParticipant, RelationHost}

\* the same for two puts of which one returned before the other was called
C40_NeverBothWhenSequential ==
  (BothPut /\ \E r \in RegProcs : reg[r].gprev # {}) =>
    Held(store, reg["r1"].userPrincipal) # {RelationParticipant, RelationHost}

\* both puts read the meeting before either wrote, and X holds both relations
C40_BothHeld ==
  /\ BothPut
  /\ \A r \in RegProcs : reg[r].gprev = {} /\ reg[r].gcalls = 1 /\ reg[r].gdeletes = <<>>
  /\ Held(reg["r1"].gstore0, "user:x") = {}
  /\ Held(store, "user:x") = {RelationParticipant, RelationHost}

\* the tuples of the object of the call p, all of them in the store's order
AllInOrder(p) ==
  FirstByRank(StoredFor(sync[p].object), Cardinality(StoredFor(sync[p].object)))

\* the number of pages the store cuts n tuples into
Pages(n) == IF n = 0 THEN 1 ELSE (n + PageSize - 1) \div PageSize

\* C36: ReadObjectTuples follows the continuation tokens until the store
\* returns the empty token and returns the pages concatenated in page order;
\* when a page fails it returns the error and no tuples.
C36_ReadAllPages ==
  LET s == sync["s1"]
      n == Times("s1", "read")
      all == AllInOrder("s1")
  IN /\ s.pc = "read" =>
          /\ s.tuples = SubSeq(all, 1, n * PageSize)
          /\ n > 0 => (s.token # 0 /\ n < Pages(Len(all)))
     /\ s.pc \in {"diff", "write"} =>
          /\ s.tuples = all
          /\ s.token = 0
          /\ n = Pages(Len(all))
     /\ Did("s1", "readerr") =>
          /\ s.pc = "done" /\ s.err = "read"
          /\ s.tuples = <<>>
          /\ ~Did("s1", "write")

\* C36 witness: three tuples read in three pages.
C36_Witness ==
  /\ sync["s1"].pc = "diff"
  /\ Times("s1", "read") = 3
  /\ Len(sync["s1"].tuples) = 3

\* C36 witness of the failure: the third page failed after two were read.
C36_WitnessError ==
  /\ Did("s1", "readerr")
  /\ Times("s1", "read") = 2
  /\ sync["s1"].tuples = <<>>

C37_WitnessReplied ==
  /\ HandlerReturned /\ handler.subject = "delete_all_access"
  /\ WantsReply /\ Did("s1", "write")
  /\ Len(handler.responds) = 1 /\ handler.responds[1].data = <<"OK">>

-----------------------------------------------------------------------------
(* A check asked again.                                                    *)

\* the successful Puts of the first call and the places of the same check in
\* the second call, once the second call has returned
Repeated ==
  {<<k, j>> \in (1..Len(chk["c1"].gputs)) \X (1..Len(chk["c2"].tuples)) :
     /\ chk["c1"].pc = "done" /\ chk["c2"].pc = "done"
     /\ chk["c1"].gputs[k].ok
     /\ CacheKey(chk["c2"].tuples[j]) = chk["c1"].gputs[k].key}

\* no Put of the inv key since the Put e
NoInvWriteSince(e) == InvEntry = e.ginv

\* the second call answered its j-th check from the cache, with value, and
\* did not send it to BatchCheck
ServedFromCache(j, value) ==
  LET c == chk["c2"]
  IN /\ c.err = ""
     /\ \E k \in Lookups("c2", "hit") : c.glookups[k].i = j
     /\ \A m \in 1..Len(c.tuplesToCheck) : c.tuplesToCheck[m] # c.tuples[j]
     /\ \E m \in 1..Len(c.message) :
          c.message[m] = RelationKey(c.tuples[j]) \o "\t" \o value
     /\ \A m \in 1..Len(c.message), v \in {"true", "false"} \ {value} :
          c.message[m] # RelationKey(c.tuples[j]) \o "\t" \o v

\* the reads of the second call went through: Get("inv") and every Get of an
\* entry returned without a transport error
ReadsSucceeded ==
  /\ chk["c2"].ginv # "error"
  /\ Lookups("c2", "error") = {}

\* the entry of the Put e is still the one in the cache
NotOverwritten(e) ==
  /\ e.key \in DOMAIN cache
  /\ cache[e.key].gsrc = "check"
  /\ cache[e.key].created = e.gnow
  /\ cache[e.key].value = e.value

\* C38 as stated: after a call answered a check by BatchCheck and Put the
\* answer in the cache, the same check in a following call, with no write of
\* inv in between, is answered from the cache with the same value and
\* without BatchCheck.
C38_RepeatServedFromCache ==
  \A r \in Repeated :
    NoInvWriteSince(chk["c1"].gputs[r[1]]) =>
      ServedFromCache(r[2], chk["c1"].gputs[r[1]].value)

\* C38: the same, when in the following call Get("inv") and the Gets of the
\* entries succeed and the entry Put by the first call has not been
\* overwritten in between.
C38_RepeatServedWhenReadsSucceed ==
  \A r \in Repeated :
    (/\ NoInvWriteSince(chk["c1"].gputs[r[1]])
     /\ ReadsSucceeded
     /\ NotOverwritten(chk["c1"].gputs[r[1]])) =>
      ServedFromCache(r[2], chk["c1"].gputs[r[1]].value)

\* C38 witness: with an inv entry in the cache the first call asked the
\* gateway and cached the answer; after the clock moved on the second call
\* returned the same line without a BatchCheck.
C38_Witness ==
  /\ Repeated # {}
  /\ chk["c1"].gbatches = 1 /\ chk["c2"].gbatches = 0
  /\ InvEntry # NoEntry
  /\ \A r \in Repeated :
       /\ NoInvWriteSince(chk["c1"].gputs[r[1]])
       /\ chk["c1"].gputs[r[1]].gnow < now
       /\ ServedFromCache(r[2], chk["c1"].gputs[r[1]].value)
  /\ chk["c2"].output = chk["c1"].output

\* a Get of the entry failed in the second call, which asked the gateway again
C38_AskedAgain ==
  /\ Repeated # {}
  /\ \A r \in Repeated : NoInvWriteSince(chk["c1"].gputs[r[1]])
  /\ Lookups("c2", "error") # {}
  /\ chk["c2"].gbatches = 1

\* a seed overwrote the entry and the second call served another value
C38_OtherValue ==
  /\ Repeated # {}
  /\ ReadsSucceeded
  /\ \E r \in Repeated :
       /\ NoInvWriteSince(chk["c1"].gputs[r[1]])
       /\ chk["c1"].gputs[r[1]].value = "false"
       /\ ServedFromCache(r[2], "true")

====
